---------------------------- MODULE Spec2Model ----------------------------
(***************************************************************************)
(* A model of kurbo-cpp's composite path engine: BezPath (bezpath.cpp,     *)
(* bezpath.hpp), PathEl (path_el.cpp), and the curve kinds it flattens     *)
(* (quadbez.cpp, cubicbez.cpp, line.cpp).                                  *)
(*                                                                         *)
(* Numbers.  The library computes in IEEE doubles.  The model computes in  *)
(* exact binary fixed point: an integer n stands for the double n / One,   *)
(* One = 2^FracBits.  Every input is drawn from a small lattice, so every  *)
(* sum, product and halving the code performs on it is exact in doubles    *)
(* too; Exact() makes TLC stop with an error should a quotient ever fall   *)
(* off the lattice, so a result is never silently rounded by the model.    *)
(***************************************************************************)
EXTENDS Integers, Sequences, FiniteSets, TLC

VARIABLES
    elements_,   \* BezPath::elements_              (bezpath.hpp:171)
    failed,      \* TRUE once an assert() has aborted the program
    ret,         \* the value the last query returned
    pc,          \* which operation is running / has run
    it,          \* BezPath::Segments::Iter {index, last_point, start_point}
    yielded,     \* the PathSegs the running segments() loop has dereferenced
    fl,          \* BezPath::flatten's locals {i, last_pt, start_pt, have_subpath}
    out,         \* flatten's output vector
    tolerance,   \* flatten's tolerance argument
    pt,          \* the query point of winding()
    itp          \* solve_itp's arguments and locals {a, b, ya, yb, x1_2, x_t, n, ...}

vars == <<elements_, failed, ret, pc, it, yielded, fl, out, tolerance, pt, itp>>

-----------------------------------------------------------------------------
(* Bounds of the model *)

\* fractional bits of the fixed-point numbers
FracBits == 10
\* longest element sequence a BezPath holds in the lifecycle specification
MaxLen == 3
\* longest vector handed to from_vec, from_iter and extend
MaxVec == 1
\* longest path handed to get_seg, segments and reverse_subpaths
MaxPath == 3
\* longest path handed to flatten
MaxFlat == 4

One == 2 ^ FracBits

\* n / d, which must be exact
Exact(n, d) == CHOOSE q \in {n \div d} : q * d = n

\* the double product a * b of two fixed-point numbers
Mul(a, b) == Exact(a * b, One)

-----------------------------------------------------------------------------
(* Point (point.hpp) *)

Pt(x, y) == [x |-> x, y |-> y]

\* Point() : x(0.0), y(0.0)
PointDefault == Pt(0, 0)

\* std::optional: std::nullopt, or a value
Nullopt == [has |-> FALSE]
Some(v) == [has |-> TRUE, value |-> v]

-----------------------------------------------------------------------------
(* PathEl (path_el.hpp, path_el.cpp): the four constructors zero-fill the   *)
(* operands they are not given.                                             *)

PathElType == {"MoveTo", "LineTo", "QuadTo", "CurveTo", "ClosePath"}

PathEl0(type) ==
    [type |-> type, point |-> Pt(0, 0), point2 |-> Pt(0, 0), point3 |-> Pt(0, 0)]

PathEl1(type, point) ==
    [type |-> type, point |-> point, point2 |-> Pt(0, 0), point3 |-> Pt(0, 0)]

PathEl2(type, point, point2) ==
    [type |-> type, point |-> point, point2 |-> point2, point3 |-> Pt(0, 0)]

PathEl3(type, point, point2, point3) ==
    [type |-> type, point |-> point, point2 |-> point2, point3 |-> point3]

-----------------------------------------------------------------------------
(* Affine (affine.hpp, affine.cpp): coeffs[0..5], here c[1..6] *)

AffineMulPoint(c, p) ==
    Pt(Mul(c[1], p.x) + Mul(c[3], p.y) + c[5],
       Mul(c[2], p.x) + Mul(c[4], p.y) + c[6])

AffineMulPathEl(c, el) ==
    CASE el.type \in {"MoveTo", "LineTo"} ->
            PathEl1(el.type, AffineMulPoint(c, el.point))
      [] el.type = "QuadTo" ->
            PathEl2(el.type, AffineMulPoint(c, el.point), AffineMulPoint(c, el.point2))
      [] el.type = "CurveTo" ->
            PathEl3(el.type, AffineMulPoint(c, el.point), AffineMulPoint(c, el.point2),
                    AffineMulPoint(c, el.point3))
      [] el.type = "ClosePath" -> PathEl0(el.type)

-----------------------------------------------------------------------------
(* Inputs *)

\* on-curve points and control points the operations are called with
Anchors == {Pt(0, 0), Pt(One, 0)}
CtlMid == Pt(One \div 2, One)
Controls == {CtlMid, Pt(One, One)}

\* every PathEl over anchor points A and control points C
ElsOver(A, C) ==
    {PathEl1("MoveTo", p) : p \in A} \cup
    {PathEl1("LineTo", p) : p \in A} \cup
    {PathEl2("QuadTo", c, p) : c \in C, p \in A} \cup
    {PathEl3("CurveTo", c[1], c[2], p) : c \in C \X C, p \in A} \cup
    {PathEl0("ClosePath")}

SeqsUpTo(S, n) == UNION {[1..k -> S] : k \in 0..n}

\* the elements and vectors of the lifecycle specification
LifeEls == ElsOver(Anchors, {CtlMid})
LifeVecs == SeqsUpTo(LifeEls, MaxVec)

\* x -> 1 - x, which maps Anchors and CtlMid onto themselves
MirrorX == <<-One, 0, 0, One, One, 0>>
Affines == {MirrorX}

-----------------------------------------------------------------------------
(* BezPath: construction and mutation (bezpath.cpp:137-182, 264-268,       *)
(* bezpath.hpp:118-128).  An assert() that fails aborts the program:       *)
(* failed becomes TRUE and nothing runs afterwards.                        *)

FrontIsMoveTo(els) == els = <<>> \/ els[1].type = "MoveTo"

\* no query has run: nothing returned, no iterator, no flatten in progress
NoQuery ==
    /\ ret = [op |-> "none"] /\ pc = "idle"
    /\ it = [index |-> 0, last_point |-> PointDefault, start_point |-> PointDefault]
    /\ yielded = <<>>
    /\ fl = [i |-> 0, last_pt |-> PointDefault, start_pt |-> PointDefault,
             have_subpath |-> FALSE]
    /\ out = <<>> /\ tolerance = 0 /\ pt = PointDefault
    /\ itp = [phase |-> "idle"]

queryVars == <<ret, pc, it, yielded, fl, out, tolerance, pt, itp>>

\* BezPath::push on the path object this = [elements_, failed]: push_back,
\* then the assertion
pushOn(this, el) ==
    IF this.failed THEN this
    ELSE [elements_ |-> Append(this.elements_, el),
          failed |-> ~FrontIsMoveTo(Append(this.elements_, el))]

\* (a mutant: no assert(!elements_.empty()) before the push)
pushNonEmptyOnUnasserted(this, el) == pushOn(this, el)

\* the assert(!elements_.empty()) of line_to, quad_to, curve_to and
\* close_path, then push
pushNonEmptyOn(this, el) ==
    IF this.failed THEN this
    ELSE IF this.elements_ = <<>> THEN [this EXCEPT !.failed = TRUE]
    ELSE pushOn(this, el)

push(el) ==
    LET r == pushOn([elements_ |-> elements_, failed |-> failed], el)
    IN  elements_' = r.elements_ /\ failed' = r.failed

pushNonEmpty(el) ==
    LET r == pushNonEmptyOn([elements_ |-> elements_, failed |-> failed], el)
    IN  elements_' = r.elements_ /\ failed' = r.failed

FromVec ==
    \E v \in LifeVecs :
        /\ ~failed /\ elements_ = <<>>
        /\ IF FrontIsMoveTo(v)
              THEN elements_' = v /\ UNCHANGED failed
              ELSE failed' = TRUE /\ UNCHANGED elements_
        /\ UNCHANGED queryVars

FromIter ==
    \E v \in LifeVecs :
        /\ ~failed /\ elements_ = <<>>
        /\ elements_' = v
        /\ UNCHANGED <<failed, queryVars>>

Push ==
    \E el \in LifeEls :
        /\ ~failed /\ Len(elements_) < MaxLen
        /\ push(el)
        /\ UNCHANGED queryVars

MoveTo ==
    \E p \in Anchors :
        /\ ~failed /\ Len(elements_) < MaxLen
        /\ push(PathEl1("MoveTo", p))
        /\ UNCHANGED queryVars

LineTo ==
    \E p \in Anchors :
        /\ ~failed /\ Len(elements_) < MaxLen
        /\ pushNonEmpty(PathEl1("LineTo", p))
        /\ UNCHANGED queryVars

QuadTo ==
    \E p2 \in Anchors :
        /\ ~failed /\ Len(elements_) < MaxLen
        /\ pushNonEmpty(PathEl2("QuadTo", CtlMid, p2))
        /\ UNCHANGED queryVars

CurveTo ==
    \E p3 \in Anchors :
        /\ ~failed /\ Len(elements_) < MaxLen
        /\ pushNonEmpty(PathEl3("CurveTo", CtlMid, CtlMid, p3))
        /\ UNCHANGED queryVars

ClosePath ==
    /\ ~failed /\ Len(elements_) < MaxLen
    /\ pushNonEmpty(PathEl0("ClosePath"))
    /\ UNCHANGED queryVars

\* (a mutant: the first element is taken, not the last)
PopFront ==
    /\ ~failed
    /\ IF elements_ = <<>>
          THEN ret' = [op |-> "pop", popped |-> Nullopt] /\ UNCHANGED elements_
          ELSE /\ ret' = [op |-> "pop", popped |-> Some(elements_[1])]
               /\ elements_' = SubSeq(elements_, 2, Len(elements_))
    /\ UNCHANGED <<failed, pc, it, yielded, fl, out, tolerance, pt, itp>>

Pop ==
    /\ ~failed
    /\ IF elements_ = <<>>
          THEN ret' = [op |-> "pop", popped |-> Nullopt] /\ UNCHANGED elements_
          ELSE /\ ret' = [op |-> "pop", popped |-> Some(elements_[Len(elements_)])]
               /\ elements_' = SubSeq(elements_, 1, Len(elements_) - 1)
    /\ UNCHANGED <<failed, pc, it, yielded, fl, out, tolerance, pt, itp>>

\* (a mutant: resize(len) whatever the size, which pads with PathEl())
TruncateResizes ==
    \E len \in 0..(MaxLen + 1) :
        /\ ~failed
        /\ IF len < Len(elements_)
              THEN elements_' = SubSeq(elements_, 1, len)
              ELSE elements_' = elements_ \o
                       [i \in 1..(len - Len(elements_)) |-> PathEl0("ClosePath")]
        /\ ret' = [op |-> "truncate", len |-> len]
        /\ UNCHANGED <<failed, pc, it, yielded, fl, out, tolerance, pt, itp>>

\* ret records the call and its argument
Truncate ==
    \E len \in 0..(MaxLen + 1) :
        /\ ~failed
        /\ IF len < Len(elements_)
              THEN elements_' = SubSeq(elements_, 1, len)
              ELSE UNCHANGED elements_
        /\ ret' = [op |-> "truncate", len |-> len]
        /\ UNCHANGED <<failed, pc, it, yielded, fl, out, tolerance, pt, itp>>

Extend ==
    \E v \in LifeVecs :
        /\ ~failed /\ Len(elements_) + Len(v) <= MaxLen
        /\ elements_' = elements_ \o v
        /\ UNCHANGED <<failed, queryVars>>

ApplyAffine ==
    \E c \in Affines :
        /\ ~failed
        /\ elements_' = [i \in 1..Len(elements_) |-> AffineMulPathEl(c, elements_[i])]
        /\ UNCHANGED <<failed, queryVars>>

\* BezPath() = default
Init ==
    /\ elements_ = <<>>
    /\ failed = FALSE
    /\ NoQuery

Next ==
    \/ FromVec \/ FromIter \/ Push \/ MoveTo \/ LineTo \/ QuadTo \/ CurveTo
    \/ ClosePath \/ Pop \/ Truncate \/ Extend \/ ApplyAffine

Spec == Init /\ [][Next]_vars

\* a path built by the drawing methods alone
NextDraw == MoveTo \/ LineTo \/ QuadTo \/ CurveTo \/ ClosePath

SpecDraw == Init /\ [][NextDraw]_vars

-----------------------------------------------------------------------------
(* PathSeg (bezpath.hpp:45-72) *)

SegLine(p0, p1) == [kind |-> "Line", p0 |-> p0, p1 |-> p1]
SegQuad(p0, p1, p2) == [kind |-> "Quad", p0 |-> p0, p1 |-> p1, p2 |-> p2]
SegCubic(p0, p1, p2, p3) ==
    [kind |-> "Cubic", p0 |-> p0, p1 |-> p1, p2 |-> p2, p3 |-> p3]

\* elements_[i] of the C++ vector (0-based)
At(els, i) == els[i + 1]

-----------------------------------------------------------------------------
(* BezPath::get_seg (bezpath.cpp:184-239) *)

\* for (int j = from; j >= 0; --j) if (els[j].type == MoveTo) { pt = els[j].point; break; }
\* pt keeps its value dflt when no MoveTo is found
RECURSIVE ScanBackForMoveTo(_, _, _)
ScanBackForMoveTo(els, j, dflt) ==
    IF j < 0 THEN dflt
    ELSE IF At(els, j).type = "MoveTo" THEN At(els, j).point
    ELSE ScanBackForMoveTo(els, j - 1, dflt)

\* one pass of the loop for (i = 0; i < ix; ++i) of get_seg
\* (a mutant: QuadTo's end point read from point instead of point2)
GetSegLoopBodyQuadEnd(els, i, last_pt) ==
    CASE At(els, i).type \in {"MoveTo", "LineTo", "QuadTo"} -> At(els, i).point
      [] At(els, i).type = "CurveTo" -> At(els, i).point3
      [] At(els, i).type = "ClosePath" -> ScanBackForMoveTo(els, i - 1, last_pt)

GetSegLoopBody(els, i, last_pt) ==
    CASE At(els, i).type \in {"MoveTo", "LineTo"} -> At(els, i).point
      [] At(els, i).type = "QuadTo" -> At(els, i).point2
      [] At(els, i).type = "CurveTo" -> At(els, i).point3
      [] At(els, i).type = "ClosePath" -> ScanBackForMoveTo(els, i - 1, last_pt)

RECURSIVE GetSegLoop(_, _, _, _)
GetSegLoop(els, i, ix, last_pt) ==
    IF i >= ix THEN last_pt
    ELSE GetSegLoop(els, i + 1, ix, GetSegLoopBody(els, i, last_pt))

get_seg(els, ix) ==
    IF ix >= Len(els) THEN Nullopt
    ELSE
        LET el == At(els, ix)
            last_pt == GetSegLoop(els, 0, ix, PointDefault)
        IN  CASE el.type = "LineTo" -> Some(SegLine(last_pt, el.point))
              [] el.type = "QuadTo" -> Some(SegQuad(last_pt, el.point, el.point2))
              [] el.type = "CurveTo" ->
                    Some(SegCubic(last_pt, el.point, el.point2, el.point3))
              [] el.type = "ClosePath" ->
                    Some(SegLine(last_pt, ScanBackForMoveTo(els, ix - 1, last_pt)))
              [] el.type = "MoveTo" -> Nullopt

-----------------------------------------------------------------------------
(* BezPath::Segments::Iter (bezpath.cpp:404-489) *)

\* (a mutant: an if where the code has a while, so one MoveTo is skipped)
SkipMoveTosOnce(els, i) ==
    IF i.index < Len(els) /\ At(els, i.index).type = "MoveTo"
        THEN [index |-> i.index + 1,
              last_point |-> At(els, i.index).point,
              start_point |-> At(els, i.index).point]
        ELSE i

\* the loop while (index < size && els[index].type == MoveTo) of advance_to_next
RECURSIVE SkipMoveTos(_, _)
SkipMoveTos(els, i) ==
    IF i.index < Len(els) /\ At(els, i.index).type = "MoveTo"
        THEN SkipMoveTos(els, [index |-> i.index + 1,
                               last_point |-> At(els, i.index).point,
                               start_point |-> At(els, i.index).point])
        ELSE i

advance_to_next(els, i) ==
    IF i.index >= Len(els) THEN i
    ELSE
        LET s == SkipMoveTos(els, i) IN
        IF s.index >= Len(els) THEN s
        ELSE
            LET el == At(els, s.index) IN
            CASE el.type = "MoveTo" ->
                    [s EXCEPT !.last_point = el.point, !.start_point = el.point]
              [] el.type = "LineTo" -> [s EXCEPT !.last_point = el.point]
              [] el.type = "QuadTo" -> [s EXCEPT !.last_point = el.point2]
              [] el.type = "CurveTo" -> [s EXCEPT !.last_point = el.point3]
              [] el.type = "ClosePath" -> [s EXCEPT !.last_point = s.start_point]

\* Iter::Iter(els): index(0), last_point(), start_point(), then advance_to_next()
IterNew(els) ==
    advance_to_next(els, [index |-> 0, last_point |-> PointDefault,
                          start_point |-> PointDefault])

\* Iter::operator*: "assert" when the assertion fails, "throw" when it throws
IterDeref(els, i) ==
    IF ~(i.index < Len(els)) THEN [kind |-> "assert"]
    ELSE IF i.index = 0 \/ i.index >= Len(els) THEN [kind |-> "throw"]
    ELSE
        LET curr == At(els, i.index)
            last == i.last_point
        IN  CASE curr.type = "LineTo" -> SegLine(last, curr.point)
              [] curr.type = "QuadTo" -> SegQuad(last, curr.point, curr.point2)
              [] curr.type = "CurveTo" ->
                    SegCubic(last, curr.point, curr.point2, curr.point3)
              [] curr.type = "ClosePath" -> SegLine(last, i.start_point)
              [] curr.type = "MoveTo" -> [kind |-> "throw"]

\* Iter::operator++
IterIncr(els, i) == advance_to_next(els, [i EXCEPT !.index = i.index + 1])

\* Segments::end(): an Iter whose index is set to size; == compares the index
IterAtEnd(els, i) == i.index = Len(els)

-----------------------------------------------------------------------------
(* The queries on a given path.  The path is an input: any sequence of at  *)
(* most MaxPath elements that begins with MoveTo, or no element.           *)

CtlPairs == {<<CtlMid, Pt(One, One)>>, <<Pt(One, One), CtlMid>>}

PathEls ==
    {PathEl1("MoveTo", p) : p \in Anchors} \cup
    {PathEl1("LineTo", p) : p \in Anchors} \cup
    {PathEl2("QuadTo", c, p) : c \in Controls, p \in Anchors} \cup
    {PathEl3("CurveTo", c[1], c[2], p) : c \in CtlPairs, p \in Anchors} \cup
    {PathEl0("ClosePath")}

Paths == SeqsUpTo(PathEls, MaxPath)
MoveToPaths == {p \in Paths : FrontIsMoveTo(p)}

InitSeg ==
    /\ elements_ \in MoveToPaths
    /\ failed = FALSE
    /\ NoQuery

\* auto seg = path.get_seg(ix)
GetSeg ==
    \E ix \in 0..(MaxPath + 1) :
        /\ pc = "idle"
        /\ pc' = "get_seg"
        /\ ret' = [op |-> "get_seg", ix |-> ix, seg |-> get_seg(elements_, ix)]
        /\ UNCHANGED <<elements_, failed, it, yielded, fl, out, tolerance, pt, itp>>

\* auto it = path.segments().begin()
SegmentsBegin ==
    /\ pc = "idle"
    /\ pc' = "segments"
    /\ it' = IterNew(elements_)
    /\ UNCHANGED <<elements_, failed, ret, yielded, fl, out, tolerance, pt, itp>>

\* it != end: the loop body dereferences, then ++it
SegmentsStep ==
    /\ pc = "segments" /\ ~IterAtEnd(elements_, it)
    /\ LET seg == IterDeref(elements_, it) IN
        CASE seg.kind = "assert" ->
                failed' = TRUE /\ pc' = "aborted" /\ UNCHANGED <<it, yielded>>
          [] seg.kind = "throw" ->
                pc' = "thrown" /\ UNCHANGED <<failed, it, yielded>>
          [] OTHER ->
                /\ yielded' = Append(yielded, seg)
                /\ it' = IterIncr(elements_, it)
                /\ UNCHANGED <<failed, pc>>
    /\ UNCHANGED <<elements_, ret, fl, out, tolerance, pt, itp>>

\* it == end: the loop is left
SegmentsEnd ==
    /\ pc = "segments" /\ IterAtEnd(elements_, it)
    /\ pc' = "segments_done"
    /\ UNCHANGED <<elements_, failed, ret, it, yielded, fl, out, tolerance, pt, itp>>

NextSeg == GetSeg \/ SegmentsBegin \/ SegmentsStep \/ SegmentsEnd

\* the program is sequential and keeps running until it returns
SpecSeg == InitSeg /\ [][NextSeg]_vars /\ WF_vars(NextSeg)

-----------------------------------------------------------------------------
(* PathSeg::reverse (bezpath.cpp:52-68) *)

SegReverse(seg) ==
    CASE seg.kind = "Line" -> SegLine(seg.p1, seg.p0)
      [] seg.kind = "Quad" -> SegQuad(seg.p2, seg.p1, seg.p0)
      [] seg.kind = "Cubic" -> SegCubic(seg.p3, seg.p2, seg.p1, seg.p0)

-----------------------------------------------------------------------------
(* BezPath::reverse_subpaths and reverse_subpath (bezpath.cpp:312-397) *)

\* for (it = els.rbegin(); it != els.rend(); ++it) if MoveTo { end_pt = it->point; break; }
RECURSIVE LastMoveToPoint(_, _, _)
LastMoveToPoint(els, j, dflt) ==
    IF j < 0 THEN dflt
    ELSE IF At(els, j).type = "MoveTo" THEN At(els, j).point
    ELSE LastMoveToPoint(els, j - 1, dflt)

\* (a mutant: ClosePath leaves end_pt as it is)
RECURSIVE FindEndPtKeepsOnClose(_, _, _)
FindEndPtKeepsOnClose(els, i, end_pt) ==
    IF i >= Len(els) THEN end_pt
    ELSE
        LET el == At(els, i) IN
        FindEndPtKeepsOnClose(els, i + 1,
            CASE el.type \in {"MoveTo", "LineTo"} -> el.point
              [] el.type = "QuadTo" -> el.point2
              [] el.type = "CurveTo" -> el.point3
              [] el.type = "ClosePath" -> end_pt)

\* the loop of reverse_subpath that finds the end point
RECURSIVE FindEndPt(_, _, _)
FindEndPt(els, i, end_pt) ==
    IF i >= Len(els) THEN end_pt
    ELSE
        LET el == At(els, i) IN
        FindEndPt(els, i + 1,
            CASE el.type \in {"MoveTo", "LineTo"} -> el.point
              [] el.type = "QuadTo" -> el.point2
              [] el.type = "CurveTo" -> el.point3
              [] el.type = "ClosePath" -> LastMoveToPoint(els, Len(els) - 1, end_pt))

\* the loop of reverse_subpath that replays the elements from the back
RECURSIVE ReplayBackwards(_, _, _)
ReplayBackwards(els, j, reversed) ==
    IF j < 0 THEN reversed
    ELSE
        LET el == At(els, j) IN
        ReplayBackwards(els, j - 1,
            CASE el.type = "LineTo" ->
                    pushNonEmptyOn(reversed, PathEl1("LineTo", el.point))
              [] el.type = "QuadTo" ->
                    pushNonEmptyOn(reversed, PathEl2("QuadTo", el.point, el.point2))
              [] el.type = "CurveTo" ->
                    pushNonEmptyOn(reversed,
                        PathEl3("CurveTo", el.point2, el.point, el.point3))
              [] el.type = "ClosePath" ->
                    pushNonEmptyOn(reversed, PathEl0("ClosePath"))
              [] el.type = "MoveTo" -> reversed)

reverse_subpath(start_pt, els, reversed) ==
    IF els = <<>> THEN reversed
    ELSE
        LET end_pt == FindEndPt(els, 0, start_pt)
        IN  ReplayBackwards(els, Len(els) - 1,
                            pushOn(reversed, PathEl1("MoveTo", end_pt)))

\* the loop of reverse_subpaths; st = [result, current_subpath, start_pt]
RECURSIVE ReverseLoop(_, _, _)
ReverseLoop(els, i, st) ==
    IF i >= Len(els) THEN st
    ELSE
        LET el == At(els, i) IN
        ReverseLoop(els, i + 1,
            IF el.type = "MoveTo"
                THEN [result |->
                         IF st.current_subpath # <<>>
                             THEN reverse_subpath(st.start_pt, st.current_subpath,
                                                  st.result)
                             ELSE st.result,
                      current_subpath |-> <<el>>,
                      start_pt |-> el.point]
                ELSE [st EXCEPT !.current_subpath = Append(st.current_subpath, el)])

reverse_subpaths(els) ==
    LET st == ReverseLoop(els, 0,
                  [result |-> [elements_ |-> <<>>, failed |-> FALSE],
                   current_subpath |-> <<>>,
                   start_pt |-> PointDefault])
    IN  IF st.current_subpath # <<>>
            THEN reverse_subpath(st.start_pt, st.current_subpath, st.result)
            ELSE st.result

\* BezPath rev = path.reverse_subpaths()
ReverseSubpaths ==
    /\ pc = "idle"
    /\ LET r == reverse_subpaths(elements_) IN
        /\ failed' = r.failed
        /\ pc' = IF r.failed THEN "aborted" ELSE "reverse_subpaths"
        /\ ret' = [op |-> "reverse_subpaths", path |-> r.elements_]
    /\ UNCHANGED <<elements_, it, yielded, fl, out, tolerance, pt, itp>>

NextRev == ReverseSubpaths

SpecRev == InitSeg /\ [][NextRev]_vars

-----------------------------------------------------------------------------
(* Vec2::cross (vec2.cpp:21-23), Line::signed_area (line.cpp:74-76) *)

cross(a, b) == Mul(a.x, b.y) - Mul(a.y, b.x)

signed_area(p0, p1) == Mul(cross(p0, p1), One \div 2)

-----------------------------------------------------------------------------
(* BezPath::area (bezpath.cpp:593-628); st = [sum, last_pt, start_pt,      *)
(* have_subpath]                                                            *)

\* (a mutant: ClosePath adds no closing edge)
AreaLoopBodyNoClosingEdge(st, el) ==
    CASE el.type = "MoveTo" ->
            [st EXCEPT !.last_pt = el.point, !.start_pt = el.point,
                       !.have_subpath = TRUE]
      [] el.type = "LineTo" ->
            [st EXCEPT !.sum = IF st.have_subpath
                                  THEN st.sum + signed_area(st.last_pt, el.point)
                                  ELSE st.sum,
                       !.last_pt = el.point]
      [] el.type = "ClosePath" -> [st EXCEPT !.have_subpath = FALSE]
      [] OTHER -> st

AreaLoopBody(st, el) ==
    CASE el.type = "MoveTo" ->
            [st EXCEPT !.last_pt = el.point, !.start_pt = el.point,
                       !.have_subpath = TRUE]
      [] el.type = "LineTo" ->
            [st EXCEPT !.sum = IF st.have_subpath
                                  THEN st.sum + signed_area(st.last_pt, el.point)
                                  ELSE st.sum,
                       !.last_pt = el.point]
      [] el.type = "ClosePath" ->
            [st EXCEPT !.sum = IF st.have_subpath /\ st.last_pt # st.start_pt
                                  THEN st.sum + signed_area(st.last_pt, st.start_pt)
                                  ELSE st.sum,
                       !.have_subpath = FALSE]
      [] OTHER -> st

RECURSIVE AreaLoop(_, _, _)
AreaLoop(els, i, st) ==
    IF i >= Len(els) THEN st
    ELSE AreaLoop(els, i + 1, AreaLoopBody(st, At(els, i)))

area(els) ==
    AreaLoop(els, 0, [sum |-> 0, last_pt |-> PointDefault,
                      start_pt |-> PointDefault, have_subpath |-> FALSE]).sum

-----------------------------------------------------------------------------
(* ray_intersection_count (bezpath.cpp:9-30) and BezPath::winding          *)
(* (bezpath.cpp:667-705)                                                   *)

Abs(n) == IF n < 0 THEN -n ELSE n

\* x_intersect > pt.x, for x_intersect = p1.x + t * (p2.x - p1.x) and
\* t = (pt.y - p1.y) / (p2.y - p1.y), p2.y # p1.y.  t need not lie on the
\* lattice, so the comparison is made on the common denominator p2.y - p1.y.
\* The double x_intersect is within rounding of the exact one, and the exact
\* one is either pt.x or a lattice fraction away from it: the two comparisons
\* agree unless pt lies exactly on the line through p1 and p2.
XIntersectRightOf(p1, p2, q) ==
    LET dy == p2.y - p1.y
        num == (p1.x - q.x) * dy + (q.y - p1.y) * (p2.x - p1.x)
    IN  IF dy > 0 THEN num > 0 ELSE num < 0

\* (a mutant: the straddle test closed at both ends)
ray_intersection_countClosed(p1, p2, q) ==
    IF Abs(p1.y - p2.y) < 1 THEN 0
    ELSE IF (p1.y >= q.y /\ p2.y <= q.y) \/ (p2.y >= q.y /\ p1.y <= q.y)
        THEN IF XIntersectRightOf(p1, p2, q)
                THEN (IF p2.y > p1.y THEN 1 ELSE -1)
                ELSE 0
    ELSE 0

\* std::abs(p1.y - p2.y) < 1e-12: 1e-12 is below the lattice step, so on the
\* lattice the test is that of a difference below one step
ray_intersection_count(p1, p2, q) ==
    IF Abs(p1.y - p2.y) < 1 THEN 0
    ELSE IF (p1.y > q.y /\ p2.y <= q.y) \/ (p2.y > q.y /\ p1.y <= q.y)
        THEN IF XIntersectRightOf(p1, p2, q)
                THEN (IF p2.y > p1.y THEN 1 ELSE -1)
                ELSE 0
    ELSE 0

\* st = [winding, last_pt, start_pt, have_subpath]
WindingLoopBody(st, el, q) ==
    CASE el.type = "MoveTo" ->
            [st EXCEPT !.last_pt = el.point, !.start_pt = el.point,
                       !.have_subpath = TRUE]
      [] el.type = "LineTo" ->
            [st EXCEPT !.winding =
                           IF st.have_subpath
                               THEN st.winding +
                                    ray_intersection_count(st.last_pt, el.point, q)
                               ELSE st.winding,
                       !.last_pt = el.point]
      [] el.type = "ClosePath" ->
            [st EXCEPT !.winding =
                           IF st.have_subpath /\ st.last_pt # st.start_pt
                               THEN st.winding +
                                    ray_intersection_count(st.last_pt, st.start_pt, q)
                               ELSE st.winding,
                       !.have_subpath = FALSE]
      [] OTHER -> st

RECURSIVE WindingLoop(_, _, _, _)
WindingLoop(els, i, st, q) ==
    IF i >= Len(els) THEN st
    ELSE WindingLoop(els, i + 1, WindingLoopBody(st, At(els, i), q), q)

winding(els, q) ==
    WindingLoop(els, 0, [winding |-> 0, last_pt |-> PointDefault,
                         start_pt |-> PointDefault, have_subpath |-> FALSE], q).winding

-----------------------------------------------------------------------------
(* area() and winding() of closed polygons MoveTo, LineTo..., ClosePath    *)

\* the polygon's vertices lie on the whole-unit grid 0..GridMax
GridMax == 2
\* the most vertices of a polygon handed to area()
MaxVerts == 3

Grid == {Pt(x * One, y * One) : x \in 0..GridMax, y \in 0..GridMax}

\* the path MoveTo(v[1]), LineTo(v[2]), ..., LineTo(v[n]), ClosePath
PolyPath(v) ==
    <<PathEl1("MoveTo", v[1])>> \o
    [i \in 1..(Len(v) - 1) |-> PathEl1("LineTo", v[i + 1])] \o
    <<PathEl0("ClosePath")>>

\* the square (0,0), (10,0), (10,10), (0,10) of the tests
Square10 == <<Pt(0, 0), Pt(10 * One, 0), Pt(10 * One, 10 * One), Pt(0, 10 * One)>>

Polygons ==
    {PolyPath(v) : v \in UNION {[1..n -> Grid] : n \in 1..MaxVerts}}
    \cup {PolyPath(Square10)}

\* the four corners of the rectangle (x0, y0)-(x1, y1), from corner k, in
\* direction d
RectVerts(x0, y0, x1, y1, k, d) ==
    LET c == <<Pt(x0, y0), Pt(x1, y0), Pt(x1, y1), Pt(x0, y1)>>
    IN  [i \in 1..4 |-> c[((k + d * (i - 1)) % 4) + 1]]

Triangles == {PolyPath(v) : v \in [1..3 -> Grid]}

Rectangles ==
    {PolyPath(RectVerts(x0 * One, y0 * One, x1 * One, y1 * One, k, d)) :
        x0 \in 0..GridMax, x1 \in 0..GridMax, y0 \in 0..GridMax, y1 \in 0..GridMax,
        k \in 0..3, d \in {1, 3}}

\* query points: the half-unit lattice from -1/2 to GridMax + 1/2
QueryPts ==
    {Pt(x * (One \div 2), y * (One \div 2)) :
        x \in (-1)..(2 * GridMax + 1), y \in (-1)..(2 * GridMax + 1)}

InitArea ==
    /\ elements_ \in Polygons
    /\ failed = FALSE
    /\ NoQuery

\* double a = path.area()
Area ==
    /\ pc = "idle"
    /\ pc' = "area"
    /\ ret' = [op |-> "area", value |-> area(elements_)]
    /\ UNCHANGED <<elements_, failed, it, yielded, fl, out, tolerance, pt, itp>>

NextArea == Area

SpecArea == InitArea /\ [][NextArea]_vars

InitWinding ==
    /\ elements_ \in Triangles \cup Rectangles
    /\ failed = FALSE
    /\ NoQuery

\* int w = path.winding(q)
Winding ==
    \E q \in QueryPts :
        /\ pc = "idle"
        /\ pc' = "winding"
        /\ pt' = q
        /\ ret' = [op |-> "winding", value |-> winding(elements_, q)]
        /\ UNCHANGED <<elements_, failed, it, yielded, fl, out, tolerance, itp>>

NextWinding == Winding

SpecWinding == InitWinding /\ [][NextWinding]_vars

-----------------------------------------------------------------------------
(* Vec2 and Point arithmetic used by the curves (vec2.cpp, point.cpp)      *)

VAdd(a, b) == Pt(a.x + b.x, a.y + b.y)
VSub(a, b) == Pt(a.x - b.x, a.y - b.y)
VScale(a, k) == Pt(Mul(a.x, k), Mul(a.y, k))

\* Vec2::lerp: *this + t * (other - *this)
lerp(a, b, t) == VAdd(a, VScale(VSub(b, a), t))

\* Point::midpoint: 0.5 * (x + other.x), 0.5 * (y + other.y)
midpoint(a, b) == Pt(Mul(One \div 2, a.x + b.x), Mul(One \div 2, a.y + b.y))

QuadBez(p0, p1, p2) == [p0 |-> p0, p1 |-> p1, p2 |-> p2]
CubicBez(p0, p1, p2, p3) == [p0 |-> p0, p1 |-> p1, p2 |-> p2, p3 |-> p3]

\* QuadBez::eval
QuadEval(q, t) ==
    LET mt == One - t
    IN  VAdd(VScale(q.p0, Mul(mt, mt)),
             VScale(VAdd(VScale(q.p1, Mul(mt, 2 * One)), VScale(q.p2, t)), t))

\* QuadBez::subdivide
QuadSubdivide(q) ==
    LET pm == QuadEval(q, One \div 2)
    IN  [first |-> QuadBez(q.p0, midpoint(q.p0, q.p1), pm),
         second |-> QuadBez(pm, midpoint(q.p1, q.p2), q.p2)]

\* CubicBez::subdivide_concrete
subdivide_concrete(c) ==
    LET mid01 == lerp(c.p0, c.p1, One \div 2)
        mid12 == lerp(c.p1, c.p2, One \div 2)
        mid23 == lerp(c.p2, c.p3, One \div 2)
        mid012 == lerp(mid01, mid12, One \div 2)
        mid123 == lerp(mid12, mid23, One \div 2)
        mid0123 == lerp(mid012, mid123, One \div 2)
    IN  [first |-> CubicBez(c.p0, mid01, mid012, mid0123),
         second |-> CubicBez(mid0123, mid123, mid23, c.p3)]

-----------------------------------------------------------------------------
(* flatten_quad_bezier, flatten_cubic_bezier (bezpath.cpp:504-549)         *)

\* The recursion stops below depth MAX_DEPTH + 1.  The source's cap is 16;
\* the model's is small, so that the whole recursion tree is enumerated, and
\* the tolerances are chosen so that both the tolerance and the cap end it.
MAX_DEPTH == 1

\* (a mutant: the comparison the other way round)
OffChordMore(p, a, b, tol) ==
    LET v == VSub(Pt(2 * p.x, 2 * p.y), VAdd(a, b))
    IN  v.x * v.x + v.y * v.y > (2 * tol) * (2 * tol)

\* (p - (a + b) * 0.5).hypot() < tol.  Both sides are doubled, so that the
\* half needs no further fractional bit, and squared: hypot() is the square
\* root of an exactly representable sum of squares here, and the rounded
\* root of a lattice number lies on the same side of tol as the exact one.
OffChordLess(p, a, b, tol) ==
    LET v == VSub(Pt(2 * p.x, 2 * p.y), VAdd(a, b))
    IN  tol > 0 /\ v.x * v.x + v.y * v.y < (2 * tol) * (2 * tol)

\* (a mutant: the LineTo is emitted, last_pt is left as it was)
EmitLineToKeepsLastPt(st, p) ==
    [st EXCEPT !.out = Append(st.out, PathEl1("LineTo", p))]

\* out.emplace_back(PathElType::LineTo, p); last_pt = p;
EmitLineTo(st, p) ==
    [st EXCEPT !.out = Append(st.out, PathEl1("LineTo", p)), !.last_pt = p]

RECURSIVE QuadRecur(_, _, _, _)
QuadRecur(st, q, depth, tol) ==
    IF OffChordLess(q.p1, q.p0, q.p2, tol) \/ depth > MAX_DEPTH
        THEN EmitLineTo(st, q.p2)
    ELSE LET subdiv == QuadSubdivide(q)
         IN  QuadRecur(QuadRecur(st, subdiv.first, depth + 1, tol),
                       subdiv.second, depth + 1, tol)

flatten_quad_bezier(st, quad, tol) == QuadRecur(st, quad, 0, tol)

RECURSIVE CubicRecur(_, _, _, _)
CubicRecur(st, c, depth, tol) ==
    IF (OffChordLess(c.p1, c.p0, c.p3, tol) /\ OffChordLess(c.p2, c.p0, c.p3, tol))
       \/ depth > MAX_DEPTH
        THEN EmitLineTo(st, c.p3)
    ELSE LET subdiv == subdivide_concrete(c)
         IN  CubicRecur(CubicRecur(st, subdiv.first, depth + 1, tol),
                        subdiv.second, depth + 1, tol)

flatten_cubic_bezier(st, cubic, tol) == CubicRecur(st, cubic, 0, tol)

-----------------------------------------------------------------------------
(* BezPath::flatten (bezpath.cpp:551-591); st = [last_pt, start_pt,        *)
(* have_subpath, out]                                                       *)

FlattenMoveTo(st, el) ==
    [st EXCEPT !.out = Append(st.out, el), !.last_pt = el.point,
               !.start_pt = el.point, !.have_subpath = TRUE]

FlattenLineTo(st, el) ==
    [st EXCEPT !.out = Append(st.out, el), !.last_pt = el.point]

\* (a mutant: a QuadTo outside a subpath is copied to out, as a LineTo is)
FlattenQuadToCopies(st, el, tol) ==
    IF ~st.have_subpath THEN [st EXCEPT !.out = Append(st.out, el)]
    ELSE flatten_quad_bezier(st, QuadBez(st.last_pt, el.point, el.point2), tol)

FlattenQuadTo(st, el, tol) ==
    IF ~st.have_subpath THEN st
    ELSE flatten_quad_bezier(st, QuadBez(st.last_pt, el.point, el.point2), tol)

FlattenCurveTo(st, el, tol) ==
    IF ~st.have_subpath THEN st
    ELSE flatten_cubic_bezier(st, CubicBez(st.last_pt, el.point, el.point2, el.point3),
                              tol)

FlattenClosePath(st, el) ==
    LET closed == IF st.have_subpath /\ st.last_pt # st.start_pt
                      THEN Append(st.out, PathEl1("LineTo", st.start_pt))
                      ELSE st.out
    IN  [st EXCEPT !.out = Append(closed, el), !.have_subpath = FALSE]

FlattenLoopBody(st, el, tol) ==
    CASE el.type = "MoveTo" -> FlattenMoveTo(st, el)
      [] el.type = "LineTo" -> FlattenLineTo(st, el)
      [] el.type = "QuadTo" -> FlattenQuadTo(st, el, tol)
      [] el.type = "CurveTo" -> FlattenCurveTo(st, el, tol)
      [] el.type = "ClosePath" -> FlattenClosePath(st, el)

FlattenEntry ==
    [last_pt |-> PointDefault, start_pt |-> PointDefault, have_subpath |-> FALSE,
     out |-> <<>>]

\* the loop's state after its first k iterations
RECURSIVE FlattenLoop(_, _, _)
FlattenLoop(els, k, tol) ==
    IF k = 0 THEN FlattenEntry
    ELSE FlattenLoopBody(FlattenLoop(els, k - 1, tol), At(els, k - 1), tol)

-----------------------------------------------------------------------------
(* flatten() of a given path, an iteration of its loop at a time.  The     *)
(* path is any sequence of at most MaxFlat elements: extend() and          *)
(* from_iter() build paths that do not begin with MoveTo.                  *)

FlatEls ==
    {PathEl1("MoveTo", p) : p \in Anchors} \cup
    {PathEl1("LineTo", p) : p \in Anchors} \cup
    {PathEl2("QuadTo", CtlMid, Pt(One, 0)),
     PathEl3("CurveTo", CtlMid, Pt(One, One), Pt(0, 0)),
     PathEl0("ClosePath")}

FlatPaths == SeqsUpTo(FlatEls, MaxFlat)

\* a tolerance that never ends the recursion, and three that end it: after
\* two subdivisions of the QuadTo, after one, at once
Tolerances == {0, One \div 8, One \div 2, 2 * One}

InitFlat ==
    /\ elements_ \in FlatPaths
    /\ failed = FALSE
    /\ NoQuery

\* std::vector<PathEl> out; path.flatten(tol, out): entry
FlattenBegin ==
    \E tol \in Tolerances :
        /\ pc = "idle"
        /\ pc' = "flatten"
        /\ tolerance' = tol
        /\ fl' = [i |-> 0, last_pt |-> PointDefault, start_pt |-> PointDefault,
                  have_subpath |-> FALSE]
        /\ out' = <<>>
        /\ UNCHANGED <<elements_, failed, ret, it, yielded, pt, itp>>

\* one iteration of the for loop
FlattenStep ==
    /\ pc = "flatten"
    /\ fl.i < Len(elements_)
    /\ LET st == FlattenLoopBody([last_pt |-> fl.last_pt, start_pt |-> fl.start_pt,
                                  have_subpath |-> fl.have_subpath, out |-> out],
                                 At(elements_, fl.i), tolerance)
       IN  /\ fl' = [i |-> fl.i + 1, last_pt |-> st.last_pt, start_pt |-> st.start_pt,
                     have_subpath |-> st.have_subpath]
           /\ out' = st.out
    /\ UNCHANGED <<elements_, failed, ret, pc, it, yielded, tolerance, pt, itp>>

\* the loop ends, flatten returns
FlattenEnd ==
    /\ pc = "flatten"
    /\ fl.i >= Len(elements_)
    /\ pc' = "flatten_done"
    /\ UNCHANGED <<elements_, failed, ret, it, yielded, fl, out, tolerance, pt, itp>>

NextFlat == FlattenBegin \/ FlattenStep \/ FlattenEnd

SpecFlat == InitFlat /\ [][NextFlat]_vars

-----------------------------------------------------------------------------
(* Rect (rect.hpp:35-36, rect.cpp:12-14, 90-110), Line::bounding_box        *)
(* (line.cpp:199-205)                                                       *)

StdMin(a, b) == IF b < a THEN b ELSE a
StdMax(a, b) == IF a < b THEN b ELSE a

Rect(x0, y0, x1, y1) == [x0 |-> x0, y0 |-> y0, x1 |-> x1, y1 |-> y1]
RectDefault == Rect(0, 0, 0, 0)

RectAbs(r) ==
    Rect(StdMin(r.x0, r.x1), StdMin(r.y0, r.y1), StdMax(r.x0, r.x1), StdMax(r.y0, r.y1))

from_points(p0, p1) == RectAbs(Rect(p0.x, p0.y, p1.x, p1.y))

union_rect(r, other) ==
    Rect(StdMin(r.x0, other.x0), StdMin(r.y0, other.y0),
         StdMax(r.x1, other.x1), StdMax(r.y1, other.y1))

union_pt(r, p) ==
    Rect(StdMin(r.x0, p.x), StdMin(r.y0, p.y), StdMax(r.x1, p.x), StdMax(r.y1, p.y))

LineBoundingBox(p0, p1) ==
    Rect(StdMin(p0.x, p1.x), StdMin(p0.y, p1.y), StdMax(p0.x, p1.x), StdMax(p0.y, p1.y))

-----------------------------------------------------------------------------
(* BezPath::control_box (bezpath.cpp:270-310); st = [cbox, first]          *)

\* if (first) cbox = from_points(p, p), first = false; else cbox = union_pt(p)
ControlBoxAdd(st, p) ==
    IF st.first THEN [cbox |-> from_points(p, p), first |-> FALSE]
    ELSE [st EXCEPT !.cbox = union_pt(st.cbox, p)]

\* (a mutant: LineTo does not share the case of MoveTo)
ControlBoxBodyNoLineTo(st, el) ==
    CASE el.type = "MoveTo" -> ControlBoxAdd(st, el.point)
      [] el.type = "QuadTo" ->
            LET s1 == ControlBoxAdd(st, el.point)
            IN  [s1 EXCEPT !.cbox = union_pt(s1.cbox, el.point2)]
      [] el.type = "CurveTo" ->
            LET s1 == ControlBoxAdd(st, el.point)
            IN  [s1 EXCEPT !.cbox = union_pt(union_pt(s1.cbox, el.point2), el.point3)]
      [] OTHER -> st

ControlBoxBody(st, el) ==
    CASE el.type \in {"MoveTo", "LineTo"} -> ControlBoxAdd(st, el.point)
      [] el.type = "QuadTo" ->
            LET s1 == ControlBoxAdd(st, el.point)
            IN  [s1 EXCEPT !.cbox = union_pt(s1.cbox, el.point2)]
      [] el.type = "CurveTo" ->
            LET s1 == ControlBoxAdd(st, el.point)
            IN  [s1 EXCEPT !.cbox = union_pt(union_pt(s1.cbox, el.point2), el.point3)]
      [] el.type = "ClosePath" -> st

RECURSIVE ControlBoxLoop(_, _, _)
ControlBoxLoop(els, i, st) ==
    IF i >= Len(els) THEN st
    ELSE ControlBoxLoop(els, i + 1, ControlBoxBody(st, At(els, i)))

control_box(els) ==
    ControlBoxLoop(els, 0, [cbox |-> RectDefault, first |-> TRUE]).cbox

-----------------------------------------------------------------------------
(* BezPath::bounding_box (bezpath.cpp:707-765); st = [bbox, first,         *)
(* last_pt, start_pt, have_subpath]                                         *)

\* The doubles beyond every coordinate of the model: +Infinity is the number
\* Infinity, -Infinity is -Infinity.
Infinity == 2 ^ 30

\* std::isfinite
isfinite(x) == -Infinity < x /\ x < Infinity

\* Rect::is_finite
RectIsFinite(r) == isfinite(r.x0) /\ isfinite(r.y0) /\ isfinite(r.x1) /\ isfinite(r.y1)

\* Rect::invalid(), which bounding_box() calls and the sources do not define:
\* the "invalid/infinite-inverted" rectangle of the specification
RectInvalid == Rect(Infinity, Infinity, -Infinity, -Infinity)

\* if (first) bbox = box, first = false; else bbox = bbox.union_rect(box)
BoundingBoxAdd(st, box) ==
    IF st.first THEN [st EXCEPT !.bbox = box, !.first = FALSE]
    ELSE [st EXCEPT !.bbox = union_rect(st.bbox, box)]

BoundingBoxBody(st, el) ==
    CASE el.type = "MoveTo" ->
            BoundingBoxAdd([st EXCEPT !.last_pt = el.point, !.start_pt = el.point,
                                      !.have_subpath = TRUE],
                           Rect(el.point.x, el.point.y, el.point.x, el.point.y))
      [] el.type = "LineTo" ->
            LET s1 == IF st.have_subpath
                          THEN BoundingBoxAdd(st, LineBoundingBox(st.last_pt, el.point))
                          ELSE st
            IN  [s1 EXCEPT !.last_pt = el.point]
      [] el.type = "ClosePath" ->
            LET s1 == IF st.have_subpath /\ st.last_pt # st.start_pt
                          THEN BoundingBoxAdd(st, LineBoundingBox(st.last_pt, st.start_pt))
                          ELSE st
            IN  [s1 EXCEPT !.have_subpath = FALSE]
      [] OTHER -> st

RECURSIVE BoundingBoxLoop(_, _, _)
BoundingBoxLoop(els, i, st) ==
    IF i >= Len(els) THEN st
    ELSE BoundingBoxLoop(els, i + 1, BoundingBoxBody(st, At(els, i)))

\* (a mutant: no early return for the path without elements)
bounding_boxNoEmptyCheck(els) ==
    BoundingBoxLoop(els, 0, [bbox |-> RectDefault, first |-> TRUE,
                             last_pt |-> PointDefault, start_pt |-> PointDefault,
                             have_subpath |-> FALSE]).bbox

bounding_box(els) ==
    IF els = <<>> THEN RectInvalid
    ELSE BoundingBoxLoop(els, 0, [bbox |-> RectDefault, first |-> TRUE,
                                  last_pt |-> PointDefault, start_pt |-> PointDefault,
                                  have_subpath |-> FALSE]).bbox

-----------------------------------------------------------------------------
(* control_box() and bounding_box() of a given path *)

\* Rect r = path.control_box()
ControlBox ==
    /\ pc = "idle"
    /\ pc' = "control_box"
    /\ ret' = [op |-> "control_box", rect |-> control_box(elements_)]
    /\ UNCHANGED <<elements_, failed, it, yielded, fl, out, tolerance, pt, itp>>

\* Rect r = path.bounding_box()
BoundingBox ==
    /\ pc = "idle"
    /\ pc' = "bounding_box"
    /\ ret' = [op |-> "bounding_box", rect |-> bounding_box(elements_)]
    /\ UNCHANGED <<elements_, failed, it, yielded, fl, out, tolerance, pt, itp>>

NextBox == ControlBox \/ BoundingBox

SpecBox == InitSeg /\ [][NextBox]_vars

-----------------------------------------------------------------------------
(* BezPath::is_empty (bezpath.cpp:241-248), BezPath::perimeter             *)
(* (bezpath.cpp:630-665), Line::arclen (line.cpp:70-72), Vec2::hypot        *)

is_empty(els) == \A i \in 1..Len(els) : els[i].type \in {"MoveTo", "ClosePath"}

\* std::sqrt(x * x + y * y): the root is exact for the vectors of the model,
\* found at once for those along an axis
hypot(v) ==
    IF v.y = 0 THEN Abs(v.x)
    ELSE IF v.x = 0 THEN Abs(v.y)
    ELSE CHOOSE r \in 0..(Abs(v.x) + Abs(v.y)) : r * r = v.x * v.x + v.y * v.y

arclen(p0, p1) == hypot(VSub(p1, p0))

\* st = [sum, last_pt, start_pt, have_subpath]
PerimeterLoopBody(st, el) ==
    CASE el.type = "MoveTo" ->
            [st EXCEPT !.last_pt = el.point, !.start_pt = el.point,
                       !.have_subpath = TRUE]
      [] el.type = "LineTo" ->
            [st EXCEPT !.sum = IF st.have_subpath
                                  THEN st.sum + arclen(st.last_pt, el.point)
                                  ELSE st.sum,
                       !.last_pt = el.point]
      [] el.type = "ClosePath" ->
            [st EXCEPT !.sum = IF st.have_subpath /\ st.last_pt # st.start_pt
                                  THEN st.sum + arclen(st.last_pt, st.start_pt)
                                  ELSE st.sum,
                       !.have_subpath = FALSE]
      [] OTHER -> st

RECURSIVE PerimeterLoop(_, _, _)
PerimeterLoop(els, i, st) ==
    IF i >= Len(els) THEN st
    ELSE PerimeterLoop(els, i + 1, PerimeterLoopBody(st, At(els, i)))

perimeter(els) ==
    PerimeterLoop(els, 0, [sum |-> 0, last_pt |-> PointDefault,
                           start_pt |-> PointDefault, have_subpath |-> FALSE]).sum

-----------------------------------------------------------------------------
(* All the queries on a given path, the path without elements among them   *)

\* bool e = path.is_empty()
IsEmpty ==
    /\ pc = "idle"
    /\ pc' = "is_empty"
    /\ ret' = [op |-> "is_empty", value |-> is_empty(elements_)]
    /\ UNCHANGED <<elements_, failed, it, yielded, fl, out, tolerance, pt, itp>>

\* double len = path.perimeter()
Perimeter ==
    /\ pc = "idle"
    /\ pc' = "perimeter"
    /\ ret' = [op |-> "perimeter", value |-> perimeter(elements_)]
    /\ UNCHANGED <<elements_, failed, it, yielded, fl, out, tolerance, pt, itp>>

NextQuery ==
    \/ IsEmpty \/ Area \/ Perimeter \/ Winding \/ BoundingBox
    \/ FlattenBegin \/ FlattenStep \/ FlattenEnd
    \/ SegmentsBegin \/ SegmentsStep \/ SegmentsEnd

SpecQuery == InitSeg /\ [][NextQuery]_vars

-----------------------------------------------------------------------------
(* Affine::determinant, Affine::inverse (affine.cpp:108-122), apply_affine *)
(* (bezpath.cpp:264-268) and operator*(Affine, BezPath) (bezpath.cpp:      *)
(* 769-773); an Affine is the sequence of its six coefficients              *)

determinant(c) == Mul(c[1], c[4]) - Mul(c[2], c[3])

\* (a mutant: the off-diagonal coefficients are not negated)
AffineInverseUnnegated(c) ==
    LET inv_det == Exact(One * One, determinant(c))
    IN  <<Mul(inv_det, c[4]),
          Mul(inv_det, c[2]),
          Mul(inv_det, c[3]),
          Mul(inv_det, c[1]),
          Mul(inv_det, Mul(c[3], c[6]) - Mul(c[4], c[5])),
          Mul(inv_det, Mul(c[2], c[5]) - Mul(c[1], c[6]))>>

AffineInverse(c) ==
    LET inv_det == Exact(One * One, determinant(c))
    IN  <<Mul(inv_det, c[4]),
          Mul(-inv_det, c[2]),
          Mul(-inv_det, c[3]),
          Mul(inv_det, c[1]),
          Mul(inv_det, Mul(c[3], c[6]) - Mul(c[4], c[5])),
          Mul(inv_det, Mul(c[2], c[5]) - Mul(c[1], c[6]))>>

\* the loop of apply_affine
apply_affine(els, c) == [i \in 1..Len(els) |-> AffineMulPathEl(c, els[i])]

\* operator*(Affine, BezPath): a copy, and apply_affine on the copy
AffineMulBezPath(c, els) == apply_affine(els, c)

\* Invertible transforms whose inverses have coefficients on the lattice:
\* a mirror with a translation, a scale by 2, a quarter turn, a skew with a
\* translation, and an uneven scale by 1/2 and 1/4 with a translation
InvAffines ==
    {MirrorX,
     <<2 * One, 0, 0, 2 * One, 0, 0>>,
     <<0, One, -One, 0, 0, 0>>,
     <<One, 0, One, One, One, -One>>,
     <<One \div 2, 0, 0, One \div 4, One, One \div 2>>}

\* the first of the two transforms: A itself, or A.inverse()
AffineFirst(r) == IF r.order = "A, inverse" THEN r.affine ELSE AffineInverse(r.affine)
\* the second: the other one
AffineSecond(r) == IF r.order = "A, inverse" THEN AffineInverse(r.affine) ELSE r.affine

AffineVia(via, c, els) ==
    IF via = "apply_affine" THEN apply_affine(els, c) ELSE AffineMulBezPath(c, els)

\* p.apply_affine(first), or p = first * p
TransformFirst ==
    \E A \in InvAffines, order \in {"A, inverse", "inverse, A"},
       via \in {"apply_affine", "operator*"} :
        /\ pc = "idle"
        /\ pc' = "transformed"
        /\ ret' = [op |-> "affine", affine |-> A, order |-> order, via |-> via,
                   original |-> elements_]
        /\ elements_' = AffineVia(via, AffineFirst(ret'), elements_)
        /\ UNCHANGED <<failed, it, yielded, fl, out, tolerance, pt, itp>>

\* p.apply_affine(second), or p = second * p
TransformSecond ==
    /\ pc = "transformed"
    /\ pc' = "transformed_back"
    /\ elements_' = AffineVia(ret.via, AffineSecond(ret), elements_)
    /\ UNCHANGED <<failed, ret, it, yielded, fl, out, tolerance, pt, itp>>

NextAffine == TransformFirst \/ TransformSecond

SpecAffine == InitSeg /\ [][NextAffine]_vars

-----------------------------------------------------------------------------
(* CubicBez::eval (cubicbez.cpp:19-28), CubicBez::subdivide_3              *)
(* (cubicbez.cpp:86-109)                                                    *)

\* the body of the loop of eval; b = <<b0, b1, b2, b3>>
CubicEvalPass(b, t) ==
    LET b0 == lerp(b[1], b[2], t)
        b1 == lerp(b[2], b[3], t)
        b2 == lerp(b[3], b[4], t)
    IN  <<b0, b1, b2, b[4]>>

CubicEval(c, t) ==
    LET b == CubicEvalPass(CubicEvalPass(CubicEvalPass(<<c.p0, c.p1, c.p2, c.p3>>, t), t), t)
    IN  lerp(b[1], b[2], t)

\* a.lerp(b, n / 3.0): the model takes the exact third, where the double
\* 1.0/3.0 is the nearest double to it
lerp3(a, b, n) ==
    Pt(a.x + Exact((b.x - a.x) * n, 3), a.y + Exact((b.y - a.y) * n, 3))

\* (a mutant: the middle piece starts from its own first control point)
subdivide_3Apart(c) ==
    LET mid01_1 == lerp3(c.p0, c.p1, 1)
        mid12_1 == lerp3(c.p1, c.p2, 1)
        mid23_1 == lerp3(c.p2, c.p3, 1)
        mid012_1 == lerp3(mid01_1, mid12_1, 1)
        mid123_1 == lerp3(mid12_1, mid23_1, 1)
        mid0123_1 == lerp3(mid012_1, mid123_1, 1)
        mid01_2 == lerp3(c.p0, c.p1, 2)
        mid12_2 == lerp3(c.p1, c.p2, 2)
        mid012_2 == lerp3(mid01_2, mid12_2, 2)
        mid123_2 == lerp3(mid12_2, lerp3(c.p2, c.p3, 2), 2)
        mid0123_2 == lerp3(mid012_2, mid123_2, 2)
    IN  <<CubicBez(c.p0, mid01_1, mid012_1, mid0123_1),
          CubicBez(mid123_1, mid123_1, mid23_1, mid0123_2),
          CubicBez(mid0123_2, mid012_2, mid01_2, c.p3)>>

subdivide_3(c) ==
    LET mid01_1 == lerp3(c.p0, c.p1, 1)
        mid12_1 == lerp3(c.p1, c.p2, 1)
        mid23_1 == lerp3(c.p2, c.p3, 1)
        mid012_1 == lerp3(mid01_1, mid12_1, 1)
        mid123_1 == lerp3(mid12_1, mid23_1, 1)
        mid0123_1 == lerp3(mid012_1, mid123_1, 1)
        mid01_2 == lerp3(c.p0, c.p1, 2)
        mid12_2 == lerp3(c.p1, c.p2, 2)
        mid23_2 == lerp3(c.p2, c.p3, 2)
        mid012_2 == lerp3(mid01_2, mid12_2, 2)
        mid123_2 == lerp3(mid12_2, mid23_2, 2)
        mid0123_2 == lerp3(mid012_2, mid123_2, 2)
    IN  <<CubicBez(c.p0, mid01_1, mid012_1, mid0123_1),
          CubicBez(mid0123_1, mid123_1, mid23_1, mid0123_2),
          CubicBez(mid0123_2, mid012_2, mid01_2, c.p3)>>

-----------------------------------------------------------------------------
(* The curves on their own: subdivision and evaluation of a given curve    *)

\* The control points lie on a lattice of step 16 * 27, which four halvings
\* and three exact thirds keep within the fixed-point numbers.
CurveUnit == 16 * 27

CurvePts == {Pt(0, 0), Pt(CurveUnit, 2 * CurveUnit), Pt(2 * CurveUnit, -CurveUnit)}

Cubics == {CubicBez(p0, p1, p2, p3) : p0 \in CurvePts, p1 \in CurvePts,
                                       p2 \in CurvePts, p3 \in CurvePts}

Quads == {QuadBez(p0, p1, p2) : p0 \in CurvePts, p1 \in CurvePts, p2 \in CurvePts}

EvalTs == {0, One \div 2, One}

\* auto [left, right] = c.subdivide_concrete()
SubdivideConcrete ==
    \E c \in Cubics :
        /\ pc = "idle"
        /\ pc' = "subdivide_concrete"
        /\ ret' = [op |-> "subdivide_concrete", curve |-> c,
                   pieces |-> subdivide_concrete(c)]
        /\ UNCHANGED <<elements_, failed, it, yielded, fl, out, tolerance, pt, itp>>

\* auto [a, b, c3] = c.subdivide_3()
Subdivide3 ==
    \E c \in Cubics :
        /\ pc = "idle"
        /\ pc' = "subdivide_3"
        /\ ret' = [op |-> "subdivide_3", curve |-> c, pieces |-> subdivide_3(c)]
        /\ UNCHANGED <<elements_, failed, it, yielded, fl, out, tolerance, pt, itp>>

\* auto [first, second] = q.subdivide()
QuadSubdivideCall ==
    \E q \in Quads :
        /\ pc = "idle"
        /\ pc' = "subdivide"
        /\ ret' = [op |-> "subdivide", curve |-> q, pieces |-> QuadSubdivide(q)]
        /\ UNCHANGED <<elements_, failed, it, yielded, fl, out, tolerance, pt, itp>>

\* Point p = c.eval(t)
CubicEvalCall ==
    \E c \in Cubics, t \in EvalTs :
        /\ pc = "idle"
        /\ pc' = "eval"
        /\ ret' = [op |-> "eval", curve |-> c, t |-> t, value |-> CubicEval(c, t)]
        /\ UNCHANGED <<elements_, failed, it, yielded, fl, out, tolerance, pt, itp>>

NextCurve == SubdivideConcrete \/ Subdivide3 \/ QuadSubdivideCall \/ CubicEvalCall

SpecCurve == Init /\ [][NextCurve]_vars

-----------------------------------------------------------------------------
(* Root solvers (common.cpp:11-141, 202-274).  Here a double is a lattice  *)
(* number of magnitude below Infinity, or +Infinity, -Infinity or NaN.  A  *)
(* product or quotient is rounded towards zero to the lattice, one too     *)
(* large for the format overflows to an infinity, and NaN compares false   *)
(* with everything, as in IEEE arithmetic.                                 *)

NaN == Infinity + 1

IsInf(x) == x = Infinity \/ x = -Infinity

\* the value of an expression whose operands x and y are evaluated once
TheOne(S) == CHOOSE r \in S : TRUE

\* -a
FNeg(a) == TheOne({IF x = NaN THEN NaN ELSE -x : x \in {a}})

\* std::abs(a)
FAbs(a) == TheOne({IF x = NaN THEN NaN ELSE Abs(x) : x \in {a}})

\* a < b
FLess(a, b) == TheOne({x # NaN /\ y # NaN /\ x < y : x \in {a}, y \in {b}})

\* a + b
FAdd(a, b) ==
    TheOne({IF x = NaN \/ y = NaN THEN NaN
            ELSE IF IsInf(x) /\ IsInf(y) THEN (IF x = y THEN x ELSE NaN)
            ELSE IF IsInf(x) THEN x
            ELSE IF IsInf(y) THEN y
            ELSE IF x + y >= Infinity THEN Infinity
            ELSE IF x + y <= -Infinity THEN -Infinity
            ELSE x + y : x \in {a}, y \in {b}})

\* a - b
FSub(a, b) == FAdd(a, FNeg(b))

\* a / b
FDiv(a, b) ==
    TheOne({LET s == IF (x < 0) = (y < 0) THEN 1 ELSE -1
                n == Abs(x)
                d == Abs(y)
            IN  IF x = NaN \/ y = NaN THEN NaN
                ELSE IF IsInf(x) THEN (IF IsInf(y) THEN NaN ELSE s * Infinity)
                ELSE IF IsInf(y) THEN 0
                ELSE IF y = 0 THEN (IF x = 0 THEN NaN ELSE s * Infinity)
                ELSE IF n \div d >= Infinity \div One THEN s * Infinity
                ELSE s * ((n \div d) * One + ((n % d) * One) \div d)
            : x \in {a}, y \in {b}})

\* a * b is too large for the format
Overflows(a, b) == b # 0 /\ Abs(a) \div One >= Infinity \div Abs(b)

\* a * b
FMul(a, b) ==
    TheOne({LET s == IF (x < 0) = (y < 0) THEN 1 ELSE -1
                n == Abs(x)
                d == Abs(y)
            IN  IF x = NaN \/ y = NaN THEN NaN
                ELSE IF IsInf(x) \/ IsInf(y)
                     THEN (IF x = 0 \/ y = 0 THEN NaN ELSE s * Infinity)
                ELSE IF Overflows(x, y) THEN s * Infinity
                ELSE s * ((n \div One) * d + ((n % One) * d) \div One)
            : x \in {a}, y \in {b}})

\* std::sqrt(x) for x >= 0
sqrt(x) == CHOOSE r \in 0..(x + One) : r * r = x * One

\* the linear case with nothing returned when every x is a root
SolveLinearNoDegenerate(c0, c1) ==
    IF c1 # 0
    THEN LET root == FDiv(-c0, c1) IN IF isfinite(root) THEN <<root>> ELSE <<>>
    ELSE <<>>

\* if (c2 == 0.0) { ... }: the equation is linear or degenerate
SolveLinear(c0, c1) ==
    IF c1 # 0
    THEN LET root == FDiv(-c0, c1) IN IF isfinite(root) THEN <<root>> ELSE <<>>
    ELSE IF c0 = 0 /\ c1 = 0 THEN <<0>> ELSE <<>>

\* if (!isfinite(sc0) || !isfinite(sc1)) { ... }: c2 is zero or nearly so
SolveNearlyLinear(c0, c1) ==
    LET root == FDiv(-c0, c1)
    IN  IF isfinite(root) THEN <<root>>
        ELSE IF c0 = 0 /\ c1 = 0 THEN <<0>> ELSE <<>>

\* the two roots pushed in the order computed
RootsInOrderComputed(root1, root2) == <<root1, root2>>

\* if (root2 > root1) { root1, root2 } else { root2, root1 }
RootsAscending(root1, root2) ==
    IF root2 > root1 THEN <<root1, root2>> ELSE <<root2, root1>>

\* the roots of x^2 + sc1 x + sc0 with finite sc0, sc1
SolveMonic(sc0, sc1) ==
    LET sq == FMul(sc1, sc1)
        arg == sq - 4 * sc0
    IN  IF ~isfinite(sq) THEN <<-sc1>>
        ELSE IF arg < 0 THEN <<>>
        ELSE IF arg = 0 THEN <<Exact(-sc1, 2)>>
        ELSE LET root1 == Exact(-(sc1 + sqrt(arg) * (IF sc1 >= 0 THEN 1 ELSE -1)), 2)
                 root2 == FDiv(sc0, root1)
             IN  IF isfinite(root2) THEN RootsAscending(root1, root2)
                 ELSE <<root1>>

solve_quadratic(c0, c1, c2) ==
    IF c2 = 0 THEN SolveLinear(c0, c1)
    ELSE LET sc0 == FDiv(c0, c2)
             sc1 == FDiv(c1, c2)
         IN  IF ~isfinite(sc0) \/ ~isfinite(sc1) THEN SolveNearlyLinear(c0, c1)
             ELSE SolveMonic(sc0, sc1)

\* !isfinite(scaled_c0) || !isfinite(scaled_c1) || !isfinite(scaled_c2),
\* with ONETHIRD * c3_recip rounded towards zero
ScalingOverflows(c0, c1, c2, c3) ==
    LET c3_recip == FDiv(One, c3)
        third == c3_recip \div 3
    IN  \/ ~isfinite(c3_recip)
        \/ Overflows(c0, c3_recip) \/ Overflows(c1, third) \/ Overflows(c2, third)

\* The roots by the discriminant (common.cpp:30-71) take cbrt, atan2, sin
\* and cos, which this arithmetic does not have: the model stops at them.
DepressedCubic(c0, c1, c2, c3) == CHOOSE roots \in {} : TRUE

solve_cubic(c0, c1, c2, c3) ==
    IF c3 = 0 THEN solve_quadratic(c0, c1, c2)
    ELSE IF ScalingOverflows(c0, c1, c2, c3) THEN solve_quadratic(c0, c1, c2)
    ELSE DepressedCubic(c0, c1, c2, c3)

\* the smallest positive number and a large one: Big / Tiny overflows
Tiny == 2 ^ 0
Big == Infinity \div One

LinearCoeffs ==
    {<<c0, c1, 0>> : c0 \in {0, One, -One, 3 * One, Big, -Big},
                     c1 \in {0, One, -One, One \div 2, 2 * One, Tiny}}

QuadRoots == {-2 * One, -One, 0, One \div 2, One, 3 * One}

\* c2 (x - r1)(x - r2)
Factored(c2, r1, r2) == <<Mul(c2, Mul(r1, r2)), -Mul(c2, r1 + r2), c2>>

\* with two real roots or a double one
FactoredCoeffs ==
    {Factored(c2, r1, r2) : c2 \in {One, -One, 2 * One}, r1 \in QuadRoots, r2 \in QuadRoots}

\* without real roots
PositiveCoeffs ==
    {<<s * c0, s * c1, s * c2>> : c0 \in {One, 5 * One}, c1 \in {0, One, -One},
                                  c2 \in {One, 2 * One}, s \in {1, -1}}

\* with c2 too small to divide by, or a root too large
ExtremeCoeffs == {<<Big, One, Tiny>>, <<Big, 0, Tiny>>, <<0, One, Tiny>>, <<One, 0, Tiny>>}

QuadCoeffs == LinearCoeffs \cup FactoredCoeffs \cup PositiveCoeffs \cup ExtremeCoeffs

\* with c3 zero, or so small that scaling by 1 / c3 overflows
CubicCoeffs ==
    {<<c[1], c[2], c[3], 0>> : c \in QuadCoeffs}
        \cup {<<s * Big, c1, c2, Tiny>> : s \in {1, -1}, c1 \in {0, One}, c2 \in {0, Tiny}}

\* auto roots = solve_quadratic(c0, c1, c2)
SolveQuadratic ==
    \E c \in QuadCoeffs :
        /\ pc = "idle"
        /\ pc' = "solve_quadratic"
        /\ ret' = [op |-> "solve_quadratic", c0 |-> c[1], c1 |-> c[2], c2 |-> c[3],
                   roots |-> solve_quadratic(c[1], c[2], c[3])]
        /\ UNCHANGED <<elements_, failed, it, yielded, fl, out, tolerance, pt, itp>>

\* auto roots = solve_cubic(c0, c1, c2, c3)
SolveCubic ==
    \E c \in CubicCoeffs :
        /\ pc = "idle"
        /\ pc' = "solve_cubic"
        /\ ret' = [op |-> "solve_cubic", c0 |-> c[1], c1 |-> c[2], c2 |-> c[3],
                   c3 |-> c[4], roots |-> solve_cubic(c[1], c[2], c[3], c[4])]
        /\ UNCHANGED <<elements_, failed, it, yielded, fl, out, tolerance, pt, itp>>

NextSolve == SolveQuadratic \/ SolveCubic

SpecSolve == Init /\ [][NextSolve]_vars

-----------------------------------------------------------------------------
(* solve_itp (common.cpp:202-274) and its caller inv_arclen                *)
(* (param_curve.cpp:20-59), one loop iteration at a time.  The points x    *)
(* and the values y are lattice numbers.  What the code only compares is   *)
(* compared exactly: the sign of a product is the product of the signs,    *)
(* and the tolerances eps_x and eps_t, which a double holds far finer than *)
(* the lattice, are kept unrounded as One times their value.               *)

Half == One \div 2

\* std::pow(0.5, n): it underflows to 0 once n exceeds the fraction bits
PowHalf(n) == IF n > FracBits THEN 0 ELSE One \div (2 ^ n)

\* size_t n as far as the loop can tell its values apart: beyond NSat
\* std::pow(0.5, n) is 0 and n >= n0 holds, so n is kept at NSat
NSat == FracBits + 1

\* The functions handed to solve_itp.  f.kind says which one:
\*   "linear"  x - c           "step"  x < c ? -1 : k           "zero"  0
\*   "arclen"  the lambda of inv_arclen for a Line of length f.len and the
\*             target f.target; it keeps t_last and arclen_last between calls
\* CallF gives the value and the lambda's captured state after the call.
CallF(f, st, x) ==
    CASE f.kind = "linear" ->
            [y |-> FSub(x, f.c), t_last |-> st.t_last, arclen_last |-> st.arclen_last]
      [] f.kind = "step" ->
            [y |-> IF x = NaN THEN NaN ELSE IF x < f.c THEN -One ELSE f.k,
             t_last |-> st.t_last, arclen_last |-> st.arclen_last]
      [] f.kind = "zero" ->
            [y |-> IF x = NaN THEN NaN ELSE 0,
             t_last |-> st.t_last, arclen_last |-> st.arclen_last]
      [] f.kind = "arclen" ->
            LET fwd == FLess(st.t_last, x)
                start == IF fwd THEN st.t_last ELSE x
                end == IF fwd THEN x ELSE st.t_last
                dir == IF fwd THEN 1 ELSE -1
                p0 == Pt(0, 0)
                p1 == Pt(f.len, 0)
                arc == arclen(lerp(p0, p1, start), lerp(p0, p1, end))
                al == st.arclen_last + arc * dir
            IN  [y |-> al - f.target, t_last |-> x, arclen_last |-> al]

\* x * y > 0.0
ProductPositive(x, y) ==
    TheOne({(FLess(0, u) /\ FLess(0, v)) \/ (FLess(u, 0) /\ FLess(v, 0)) : u \in {x}, v \in {y}})

\* x > eps and x < eps for a tolerance eps kept as One times its value
ExceedsEps(x, eps) == x # NaN /\ x * One > eps
BelowEps(x, eps) == x # NaN /\ x * One < eps

\* return x
ItpReturn(st, x) == [st EXCEPT !.phase = "returned", !.result = x]

\* if (y * ya > 0.0) { a = x; ya = y; } else { b = x; yb = y; }
\* x1_2 = 0.5 * (a + b);
ItpUpdate(st, x, y) ==
    LET moved == IF ProductPositive(y, st.ya)
                 THEN [st EXCEPT !.a = x, !.ya = y]
                 ELSE [st EXCEPT !.b = x, !.yb = y]
    IN  [moved EXCEPT !.x1_2 = FMul(Half, FAdd(moved.a, moved.b))]

\* (a mutant: f is evaluated at the midpoint before the signs are compared)
ItpEntryEvaluatesFirst(f, a, b, epsilon, n0, k1, ya, yb) ==
    [phase |-> IF ProductPositive(ya, yb) THEN "returned" ELSE "loop",
     f |-> f, a0 |-> a, b0 |-> b, n0 |-> n0, k1 |-> k1,
     a |-> a, b |-> b, ya |-> ya, yb |-> yb,
     x1_2 |-> FMul(Half, FAdd(a, b)),
     eps_x |-> epsilon * (b - a),
     eps_t |-> epsilon * StdMin(Abs(ya), Abs(yb)),
     n |-> 0, x_t |-> FMul(Half, FAdd(a, b)),
     evaluated |-> TRUE, x_eval |-> Some(FMul(Half, FAdd(a, b))),
     t_last |-> 0, arclen_last |-> 0,
     result |-> NaN]

\* lines 204-214: the sign test and the locals before the loop
ItpEntry(f, a, b, epsilon, n0, k1, ya, yb) ==
    [phase |-> IF ProductPositive(ya, yb) THEN "returned" ELSE "loop",
     f |-> f, a0 |-> a, b0 |-> b, n0 |-> n0, k1 |-> k1,
     a |-> a, b |-> b, ya |-> ya, yb |-> yb,
     x1_2 |-> FMul(Half, FAdd(a, b)),
     eps_x |-> epsilon * (b - a),
     eps_t |-> epsilon * StdMin(Abs(ya), Abs(yb)),
     n |-> 0, x_t |-> FMul(Half, FAdd(a, b)),
     evaluated |-> FALSE, x_eval |-> Nullopt,
     t_last |-> 0, arclen_last |-> 0,
     result |-> NaN]

\* lines 217-234: interpolate, truncate, project; x_t and the point x_new
ItpPoint(st) ==
    LET x_t_prev == st.x_t
        r == FDiv(FSub(st.yb, st.ya), FSub(st.b, st.a))
        x_i == FSub(st.a, FDiv(st.ya, r))
        sigma == PowHalf(st.n)
        x_t_new == FAdd(x_i, FMul(sigma, FSub(st.x1_2, x_i)))
        delta == FMul(st.k1, FMul(FSub(st.b, st.a), FSub(st.b, st.a)))
        x_p == FAdd(x_t_new, FMul(delta, FSub(x_t_prev, x_t_new)))
        x_new == IF FLess(FAbs(FSub(x_p, st.x1_2)), FMul(Half, FSub(st.b, st.a)))
                 THEN x_p ELSE st.x1_2
    IN  [x_t |-> x_t_new, x_new |-> x_new]

\* lines 236-250: y_new = f(x_new), the early return, the update and n++
ItpTake(st, p, called) ==
    LET st1 == [st EXCEPT !.x_t = p.x_t, !.evaluated = TRUE,
                          !.x_eval = Some(p.x_new), !.t_last = called.t_last,
                          !.arclen_last = called.arclen_last]
        n1 == IF st.n >= NSat THEN NSat ELSE st.n + 1
    IN  IF BelowEps(FAbs(called.y), st.eps_t) THEN ItpReturn(st1, p.x_new)
        ELSE [ItpUpdate(st1, p.x_new, called.y) EXCEPT
                  !.n = n1, !.phase = IF n1 >= st.n0 THEN "secant" ELSE "loop"]

\* lines 216-250: the loop test and the body up to n++
ItpIteration(st) ==
    IF ~ExceedsEps(FSub(st.b, st.a), st.eps_x) THEN ItpReturn(st, st.x1_2)
    ELSE TheOne({TheOne({ItpTake(st, p, called) : called \in {CallF(st.f, st, p.x_new)}})
                 : p \in {ItpPoint(st)}})

\* lines 254-268: y_s = f(x_s), the early return and the update
ItpSecantTake(st, x_s, called) ==
    LET y_s == called.y
        st1 == [st EXCEPT !.evaluated = TRUE, !.x_eval = Some(x_s),
                          !.t_last = called.t_last,
                          !.arclen_last = called.arclen_last]
    IN  IF BelowEps(FAbs(y_s), st.eps_t) THEN ItpReturn(st1, x_s)
        ELSE [ItpUpdate(st1, x_s, y_s) EXCEPT !.phase = "loop"]

\* lines 252-270: the secant step taken once n >= n0
ItpSecant(st) ==
    TheOne({TheOne({ItpSecantTake(st, x_s, called) : called \in {CallF(st.f, st, x_s)}})
            : x_s \in {FSub(st.a, FDiv(FMul(st.ya, FSub(st.b, st.a)),
                                       FSub(st.yb, st.ya)))}})

\* (a mutant: a target past the end is answered in proportion, unclamped)
InvArclenEarlyUnclamped(len, target) ==
    IF target <= 0 THEN Some(0)
    ELSE IF target >= len THEN Some(FDiv(target, len))
    ELSE Nullopt

\* lines 21-27 of inv_arclen: the value returned before the root finder
InvArclenEarly(len, target) ==
    IF target <= 0 THEN Some(0)
    ELSE IF target >= len THEN Some(One)
    ELSE Nullopt

ItpFunctions ==
    {[kind |-> "linear", c |-> c] : c \in {0, One \div 4, One \div 3, 2 * One}}
        \cup {[kind |-> "step", c |-> c, k |-> k] :
                  c \in {One \div 3, One \div 2, One}, k \in {One, 64 * One}}
        \cup {[kind |-> "zero"]}

ItpBrackets == {<<0, One>>, <<0, Half>>, <<Half, One>>}
ItpEpsilons == {Tiny, One \div 16, One \div 4}
ItpN0s == {0, 1, 3}

\* 0.2, rounded to the lattice
K1 == One \div 5

\* double x = solve_itp(f, a, b, epsilon, n0, 0.2, f(a), f(b))
SolveItp ==
    /\ pc = "idle"
    /\ \E f \in ItpFunctions, br \in ItpBrackets, epsilon \in ItpEpsilons, n0 \in ItpN0s :
        LET idle == [t_last |-> 0, arclen_last |-> 0]
            st == ItpEntry(f, br[1], br[2], epsilon, n0, K1,
                           CallF(f, idle, br[1]).y, CallF(f, idle, br[2]).y)
        IN  /\ itp' = st
            /\ pc' = IF st.phase = "returned" THEN "solve_itp" ELSE "solve_itp_loop"
            /\ ret' = IF st.phase = "returned"
                      THEN [op |-> "solve_itp", value |-> st.result]
                      ELSE [op |-> "solve_itp"]
            /\ UNCHANGED <<elements_, failed, it, yielded, fl, out, tolerance, pt>>

LineLengths == {0, One, 2 * One, 4 * One}
ArcTargets == {-One, 0, One \div 2, One, 3 * One, 4 * One, 5 * One}
Accuracies == {One \div 16, One \div 4}

\* double t = Line(Point(0, 0), Point(len, 0)).inv_arclen(target, accuracy)
InvArclen ==
    /\ pc = "idle"
    /\ \E len \in LineLengths, target \in ArcTargets, accuracy \in Accuracies :
        LET early == InvArclenEarly(len, target)
            f == [kind |-> "arclen", len |-> len, target |-> target]
            st == ItpEntry(f, 0, One, FDiv(accuracy, len), 1, K1, -target, len - target)
            call == [op |-> "inv_arclen", len |-> len, target |-> target]
        IN  /\ IF early # Nullopt
               THEN /\ pc' = "inv_arclen"
                    /\ ret' = [op |-> "inv_arclen", len |-> len, target |-> target,
                               value |-> early.value]
                    /\ UNCHANGED itp
               ELSE /\ itp' = st
                    /\ pc' = IF st.phase = "returned" THEN "inv_arclen"
                             ELSE "inv_arclen_loop"
                    /\ ret' = IF st.phase = "returned"
                              THEN [op |-> "inv_arclen", len |-> len,
                                    target |-> target, value |-> st.result]
                              ELSE [op |-> "inv_arclen", len |-> len, target |-> target]
            /\ UNCHANGED <<elements_, failed, it, yielded, fl, out, tolerance, pt>>

\* the caller has its value once the loop has returned
ItpContinue(next) ==
    \E st \in {next} :
        /\ itp' = st
        /\ IF st.phase = "returned"
           THEN /\ pc' = IF pc = "solve_itp_loop" THEN "solve_itp" ELSE "inv_arclen"
                /\ ret' = ret @@ [value |-> st.result]
           ELSE UNCHANGED <<pc, ret>>
        /\ UNCHANGED <<elements_, failed, it, yielded, fl, out, tolerance, pt>>

\* while (b - a > eps_x) { ... n++;
ItpLoop ==
    /\ pc \in {"solve_itp_loop", "inv_arclen_loop"}
    /\ itp.phase = "loop"
    /\ ItpContinue(ItpIteration(itp))

\* if (n >= n0) { ... } }
ItpSecantStep ==
    /\ pc \in {"solve_itp_loop", "inv_arclen_loop"}
    /\ itp.phase = "secant"
    /\ ItpContinue(ItpSecant(itp))

NextItp == SolveItp \/ InvArclen \/ ItpLoop \/ ItpSecantStep

SpecItp == Init /\ [][NextItp]_vars /\ WF_vars(NextItp)

(* Rect as a Shape (rect.cpp) and the BezPath of its path elements         *)

\* Rect::contains with both right and bottom edges counted inside
containsClosed(r, point) ==
    point.x >= r.x0 /\ point.x <= r.x1 /\ point.y >= r.y0 /\ point.y <= r.y1

\* Rect::contains: point.x >= x0 && point.x < x1 && point.y >= y0 && point.y < y1
contains(r, point) ==
    point.x >= r.x0 /\ point.x < r.x1 /\ point.y >= r.y0 /\ point.y < r.y1

\* Rect::path_elements: the tolerance is not used
RectPathElements(r) ==
    <<PathEl1("MoveTo", Pt(r.x0, r.y0)), PathEl1("LineTo", Pt(r.x1, r.y0)),
      PathEl1("LineTo", Pt(r.x1, r.y1)), PathEl1("LineTo", Pt(r.x0, r.y1)),
      PathEl0("ClosePath")>>

\* Rect::winding
RectWinding(r, point) == IF contains(r, point) THEN 1 ELSE 0

\* rectangles with corners on the whole-unit grid, x0 > x1 and y0 > y1 included
GridRects ==
    {Rect(x0 * One, y0 * One, x1 * One, y1 * One) :
        x0 \in 0..GridMax, y0 \in 0..GridMax, x1 \in 0..GridMax, y1 \in 0..GridMax}

\* BezPath path(r.path_elements(tolerance));
\* int w = path.winding(q); int rw = r.winding(q)
RectShape ==
    \E r \in GridRects, q \in QueryPts :
        /\ pc = "idle" /\ ~failed /\ elements_ = <<>>
        /\ pc' = "rect_winding"
        /\ elements_' = RectPathElements(r)
        /\ pt' = q
        /\ ret' = [op |-> "rect_winding", rect |-> r,
                   value |-> winding(RectPathElements(r), q),
                   rect_value |-> RectWinding(r, q)]
        /\ UNCHANGED <<failed, it, yielded, fl, out, tolerance, itp>>

NextRect == RectShape

SpecRect == Init /\ [][NextRect]_vars

-----------------------------------------------------------------------------

-----------------------------------------------------------------------------
(* What the claims speak of, stated without the code's loops *)

Max(S) == CHOOSE m \in S : \A n \in S : n <= m

\* the 0-based indices of the non-MoveTo elements, in order
NonMoveToIdx(els) ==
    SelectSeq([i \in 1..Len(els) |-> i - 1], LAMBDA i : At(els, i).type # "MoveTo")

\* the point of the most recent MoveTo before element i
StartPointBefore(els, i) ==
    At(els, Max({j \in 0..(i - 1) : At(els, j).type = "MoveTo"})).point

\* the current point after element i
EndPointOf(els, i) ==
    CASE At(els, i).type \in {"MoveTo", "LineTo"} -> At(els, i).point
      [] At(els, i).type = "QuadTo" -> At(els, i).point2
      [] At(els, i).type = "CurveTo" -> At(els, i).point3
      [] At(els, i).type = "ClosePath" -> StartPointBefore(els, i)

\* the segment of element ix, which is no MoveTo
SegmentOf(els, ix) ==
    LET el == At(els, ix)
        cur == EndPointOf(els, ix - 1)
    IN  CASE el.type = "LineTo" -> SegLine(cur, el.point)
          [] el.type = "QuadTo" -> SegQuad(cur, el.point, el.point2)
          [] el.type = "CurveTo" -> SegCubic(cur, el.point, el.point2, el.point3)
          [] el.type = "ClosePath" -> SegLine(cur, StartPointBefore(els, ix))

\* the 0-based indices of the MoveTo elements, in order
MoveToIdx(els) ==
    SelectSeq([i \in 1..Len(els) |-> i - 1], LAMBDA i : At(els, i).type = "MoveTo")

\* the segments of the k-th subpath: those of the elements after the k-th
\* MoveTo, up to the next MoveTo
SubpathSegs(els, k) ==
    LET m == MoveToIdx(els)
        lo == m[k] + 1
        hi == IF k < Len(m) THEN m[k + 1] - 1 ELSE Len(els) - 1
    IN  [j \in 1..(hi - lo + 1) |-> SegmentOf(els, lo + j - 1)]

\* the vertices of a polygon path MoveTo, LineTo..., ClosePath
Verts(els) == [i \in 1..(Len(els) - 1) |-> els[i].point]

\* the sum of the cross products v[i] x v[i+1] over the closed polygon v
RECURSIVE SumCross(_, _)
SumCross(v, i) ==
    IF i > Len(v) THEN 0
    ELSE cross(v[i], v[(i % Len(v)) + 1]) + SumCross(v, i + 1)

Sign(n) == IF n > 0 THEN 1 ELSE IF n < 0 THEN -1 ELSE 0

\* the side of the edge a -> b that q lies on: > 0 to its left, < 0 to its
\* right, 0 on its line
Side(a, b, q) == Sign((b.x - a.x) * (q.y - a.y) - (b.y - a.y) * (q.x - a.x))

\* q lies strictly inside the convex polygon v whose orientation is s: on
\* the inner side of every edge
StrictlyInside(v, s, q) ==
    \A i \in 1..Len(v) : Side(v[i], v[(i % Len(v)) + 1], q) = s

\* q lies strictly outside it: on the outer side of some edge
StrictlyOutside(v, s, q) ==
    \E i \in 1..Len(v) : Side(v[i], v[(i % Len(v)) + 1], q) = -s

\* element i lies inside a subpath: a MoveTo precedes it, with no ClosePath
\* between the two
InsideSubpath(els, i) ==
    \E j \in 0..(i - 1) :
        /\ At(els, j).type = "MoveTo"
        /\ \A m \in (j + 1)..(i - 1) : At(els, m).type # "ClosePath"

\* what flatten has appended to out in its latest iteration
EmittedLast == SubSeq(out, Len(FlattenLoop(elements_, fl.i - 1, tolerance).out) + 1,
                      Len(out))

\* the number of LineTo elements of a sequence of elements
CountLineTo(els) == Cardinality({i \in 1..Len(els) : els[i].type = "LineTo"})

\* what flatten(tol, out) appends to an empty out for the path els
FlattenOut(els, tol) == FlattenLoop(els, Len(els), tol).out

Min(a, b) == IF a < b THEN a ELSE b

\* rectangle a contains rectangle b
RectContainsRect(a, b) == a.x0 <= b.x0 /\ a.y0 <= b.y0 /\ a.x1 >= b.x1 /\ a.y1 >= b.y1

\* the 0-based index of the last element of the k-th subpath
SubpathLast(els, k) ==
    LET m == MoveToIdx(els)
    IN  IF k < Len(m) THEN m[k + 1] - 1 ELSE Len(els) - 1

\* the types of the elements, in order
TypesOf(els) == [i \in 1..Len(els) |-> els[i].type]

\* eight times the point at t = k/2 of the cubic Bezier curve c:
\* 8 * ((1-t)^3 p0 + 3 (1-t)^2 t p1 + 3 (1-t) t^2 p2 + t^3 p3)
Bernstein8(c, k) ==
    LET m == 2 - k
        w0 == m * m * m
        w1 == 3 * m * m * k
        w2 == 3 * m * k * k
        w3 == k * k * k
    IN  Pt(w0 * c.p0.x + w1 * c.p1.x + w2 * c.p2.x + w3 * c.p3.x,
           w0 * c.p0.y + w1 * c.p1.y + w2 * c.p2.y + w3 * c.p3.y)

\* c0 + c1 x + c2 x^2
Poly2(c0, c1, c2, x) == c0 + Mul(c1, x) + Mul(c2, Mul(x, x))

\* c1^2 - 4 c0 c2
Discriminant(c0, c1, c2) == Mul(c1, c1) - 4 * Mul(c0, c2)

\* c0 / c2, c1 / c2 and the square of the latter are all finite
QuadraticInRange(c0, c1, c2) ==
    /\ c2 # 0
    /\ isfinite(FDiv(c0, c2)) /\ isfinite(FDiv(c1, c2))
    /\ ~Overflows(FDiv(c1, c2), FDiv(c1, c2))

\* f(x) for a function without captured state
ValueOf(f, x) == CallF(f, [t_last |-> 0, arclen_last |-> 0], x).y

\* solve_itp has been called directly (not through inv_arclen)
InSolveItp == pc \in {"solve_itp", "solve_itp_loop"}

\* the path with every QuadTo and CurveTo replaced by the straight edge to
\* the curve's end point
Straightened(els) ==
    [i \in 1..Len(els) |->
        IF els[i].type = "QuadTo" THEN PathEl1("LineTo", els[i].point2)
        ELSE IF els[i].type = "CurveTo" THEN PathEl1("LineTo", els[i].point3)
        ELSE els[i]]

\* the number of elements of the given type in a sequence of elements
CountOfType(els, type) == Cardinality({i \in 1..Len(els) : els[i].type = type})

KindOf(type) ==
    CASE type \in {"LineTo", "ClosePath"} -> "Line"
      [] type = "QuadTo" -> "Quad"
      [] type = "CurveTo" -> "Cubic"

\* one kind per non-MoveTo element, in element order
ExpectedKinds(els) ==
    LET ix == NonMoveToIdx(els)
    IN  [k \in 1..Len(ix) |-> KindOf(At(els, ix[k]).type)]

-----------------------------------------------------------------------------
\* C1: whenever no assertion has failed, the element sequence of a BezPath
\* reached through from_vec, from_iter, push, move_to, line_to, quad_to,
\* curve_to, close_path, pop, truncate, extend and apply_affine is empty or
\* begins with a MoveTo.
C1_BeginsWithMoveTo == ~failed => FrontIsMoveTo(elements_)

\* C2: for a path that begins with MoveTo, the k-th segment that iterating
\* segments() yields equals get_seg(ix_k), ix_k the index of the k-th
\* non-MoveTo element.
C2_SegmentsAgreeWithGetSeg ==
    pc \in {"segments", "segments_done"} =>
        \A k \in 1..Len(yielded) :
            Some(yielded[k]) = get_seg(elements_, NonMoveToIdx(elements_)[k])

\* C3: for a path that begins with MoveTo, get_seg(ix) returns no value exactly
\* when ix >= size or element ix is a MoveTo; otherwise it returns the segment
\* of element ix that starts at the current point before it (after a ClosePath:
\* the point of that subpath's MoveTo): a Line for LineTo, a QuadBez for QuadTo,
\* a CubicBez for CurveTo, and for ClosePath the Line to the point of the most
\* recent MoveTo.
C3_GetSeg ==
    pc = "get_seg" =>
        IF ret.ix >= Len(elements_) \/ At(elements_, ret.ix).type = "MoveTo"
            THEN ret.seg = Nullopt
            ELSE ret.seg = Some(SegmentOf(elements_, ret.ix))

\* get_seg has returned the segment of a LineTo that follows a ClosePath
C3_Witness ==
    /\ pc = "get_seg" /\ ret.seg.has /\ ret.ix >= 2
    /\ At(elements_, ret.ix).type = "LineTo"
    /\ At(elements_, ret.ix - 1).type = "ClosePath"

\* C4: iterating segments() from begin() to end() over a path that begins with
\* MoveTo (or is empty) terminates, having yielded one PathSeg per non-MoveTo
\* element, in element order and of the element's kind; with no non-MoveTo
\* element, begin() == end().
C4_SegmentsIteration ==
    /\ [](pc = "segments_done" =>
            [k \in 1..Len(yielded) |-> yielded[k].kind] = ExpectedKinds(elements_))
    /\ []((pc = "segments" /\ yielded = <<>> /\ ExpectedKinds(elements_) = <<>>) =>
            IterAtEnd(elements_, it))
    /\ ((pc = "segments") ~> (pc = "segments_done"))

\* the loop has ended on a path with two subpaths, having yielded a Quad and
\* the Line of a ClosePath
C4_Witness ==
    /\ pc = "segments_done"
    /\ Len(yielded) = 2 /\ yielded[1].kind = "Quad" /\ yielded[2].kind = "Line"
    /\ Len(elements_) = 3 /\ At(elements_, 2).type = "ClosePath"

\* C5: reverse_subpaths() traverses each subpath backwards: the segments of
\* the k-th subpath of the result are the segments of the k-th subpath of the
\* input in reverse order, each one reversed (MoveTo(p0), LineTo(p1), LineTo(p2)
\* becomes MoveTo(p2), LineTo(p1), LineTo(p0)).
C5_ReverseSubpaths ==
    pc = "reverse_subpaths" =>
        /\ Len(MoveToIdx(ret.path)) = Len(MoveToIdx(elements_))
        /\ \A k \in 1..Len(MoveToIdx(elements_)) :
              SubpathSegs(ret.path, k) =
                  LET segs == SubpathSegs(elements_, k)
                  IN  [j \in 1..Len(segs) |-> SegReverse(segs[Len(segs) + 1 - j])]

C7_AreaShoelace ==
    pc = "area" =>
        /\ 2 * ret.value = SumCross(Verts(elements_), 1)
        /\ elements_ = PolyPath(<<Pt(0, 0), Pt(One, 0), Pt(One, One), Pt(0, One)>>)
              => ret.value = One
        /\ elements_ = PolyPath(Square10) => ret.value = 100 * One

\* area() has returned 100 for the square of side 10
C7_Witness ==
    pc = "area" /\ elements_ = PolyPath(Square10) /\ ret.value = 100 * One

\* C8: for every ClosePath element of a path that begins with MoveTo, flatten
\* emits LineTo(start of the current subpath) and then the ClosePath when the
\* current point at the ClosePath differs from the subpath start, and the
\* ClosePath alone when the two coincide.
C8_FlattenClosePath ==
    (/\ pc = "flatten" /\ fl.i > 0
     /\ FrontIsMoveTo(elements_)
     /\ At(elements_, fl.i - 1).type = "ClosePath") =>
        LET k == fl.i - 1
            cur == EndPointOf(elements_, k - 1)
            start == StartPointBefore(elements_, k)
        IN  EmittedLast = IF cur # start
                              THEN <<PathEl1("LineTo", start), At(elements_, k)>>
                              ELSE <<At(elements_, k)>>

\* C9: for every path and every tolerance, every element that flatten has
\* appended to out is a MoveTo, a LineTo or a ClosePath.
C9_FlattenOnlyLines ==
    pc \in {"flatten", "flatten_done"} =>
        \A i \in 1..Len(out) : out[i].type \in {"MoveTo", "LineTo", "ClosePath"}

\* flatten has returned, at a tolerance that ends no recursion, from a path
\* with a QuadTo and a CurveTo inside a subpath, with more elements in out
\* than in the path
C9_Witness ==
    /\ pc = "flatten_done"
    /\ tolerance = 0
    /\ \E i, j \in 1..(Len(elements_) - 1) :
          /\ At(elements_, i).type = "QuadTo" /\ InsideSubpath(elements_, i)
          /\ At(elements_, j).type = "CurveTo" /\ InsideSubpath(elements_, j)
    /\ Len(out) > Len(elements_)

\* C10: for every QuadTo or CurveTo element inside a subpath and every
\* tolerance, flatten emits at least one element for it, the last of them is
\* LineTo(the element's end point: point2 of a QuadTo, point3 of a CurveTo),
\* and last_pt, from which the next element is flattened, is that same point.
C10_FlattenEndPoint ==
    (/\ pc = "flatten" /\ fl.i > 0
     /\ At(elements_, fl.i - 1).type \in {"QuadTo", "CurveTo"}
     /\ InsideSubpath(elements_, fl.i - 1)) =>
        LET el == At(elements_, fl.i - 1)
            end == IF el.type = "QuadTo" THEN el.point2 ELSE el.point3
        IN  /\ EmittedLast # <<>>
            /\ EmittedLast[Len(EmittedLast)] = PathEl1("LineTo", end)
            /\ fl.last_pt = end

\* a CurveTo inside a subpath has just been flattened into several LineTo,
\* by subdivision, and a further element follows it
C10_Witness ==
    /\ pc = "flatten" /\ fl.i > 0 /\ fl.i < Len(elements_)
    /\ At(elements_, fl.i - 1).type = "CurveTo"
    /\ InsideSubpath(elements_, fl.i - 1)
    /\ Len(EmittedLast) >= 2
    /\ EmittedLast[1].point # At(elements_, fl.i - 1).point3
    /\ fl.last_pt = At(elements_, fl.i - 1).point3

\* C11: for every path and every pair of tolerances t1 > t2 > 0, flatten with
\* t2 emits at least as many LineTo elements as flatten with t1.
C11_FlattenMonotone ==
    (pc = "flatten_done" /\ tolerance > 0) =>
        \A t1 \in Tolerances :
            t1 > tolerance =>
                CountLineTo(FlattenOut(elements_, t1)) <= CountLineTo(out)

\* flatten has returned at the smallest positive tolerance, with more LineTo
\* elements than at the next larger one, and more there than at the largest
C11_Witness ==
    /\ pc = "flatten_done"
    /\ tolerance = One \div 8
    /\ CountLineTo(FlattenOut(elements_, One \div 2)) < CountLineTo(out)
    /\ CountLineTo(FlattenOut(elements_, 2 * One))
          < CountLineTo(FlattenOut(elements_, One \div 2))

\* C12: line_to, quad_to, curve_to or close_path on a BezPath with no elements
\* fails with an assertion failure and appends nothing: the element sequence
\* is still empty when the failure is raised.
C12_DrawOnEmptyFails ==
    [][(elements_ = <<>> /\ (LineTo \/ QuadTo \/ CurveTo \/ ClosePath))
          => (failed' /\ elements_' = <<>>)]_vars

\* an assertion has failed in a path built by the drawing methods alone, of
\* which move_to never fails: in line_to, quad_to, curve_to or close_path
C12_Witness == failed /\ elements_ = <<>> /\ ret.op = "none"

\* C13: pop() on a non-empty path removes exactly the last element and
\* returns it, leaving the earlier elements as they were, so that pushing the
\* returned element at once gives the original element sequence; pop() on a
\* path with no elements returns no value, raises no failure and leaves the
\* path empty.
C13_Pop ==
    [][Pop =>
         IF elements_ = <<>>
             THEN ret'.popped = Nullopt /\ elements_' = <<>> /\ ~failed'
             ELSE /\ ret'.popped = Some(elements_[Len(elements_)])
                  /\ elements_' = SubSeq(elements_, 1, Len(elements_) - 1)
                  /\ pushOn([elements_ |-> elements_', failed |-> failed'],
                            ret'.popped.value).elements_ = elements_]_vars

\* pop() has returned the last element of a path of several elements
C13_Witness ==
    /\ ret.op = "pop" /\ ret.popped.has
    /\ ret.popped.value.type # "MoveTo"
    /\ elements_ # <<>> /\ ~failed

\* C14: truncate(len) keeps exactly the first min(len, size) elements,
\* unchanged and in order: for len < size the size becomes len, for
\* len >= size the path is left unchanged.
C14_Truncate ==
    [][Truncate =>
         LET len == ret'.len
             size == Len(elements_)
         IN  /\ elements_' = SubSeq(elements_, 1, Min(len, size))
             /\ len < size => Len(elements_') = len
             /\ len >= size => elements_' = elements_
             /\ failed' = failed]_vars

\* truncate(len) has cut a path down to len > 0 elements
C14_Witness ==
    ret.op = "truncate" /\ ret.len > 0 /\ Len(elements_) = ret.len /\ ~failed

\* C15: for every non-empty path that begins with MoveTo, control_box()
\* contains bounding_box(): its x0 and y0 are no greater, its x1 and y1 no
\* smaller.
C15_ControlBoxContainsBoundingBox ==
    /\ (pc = "control_box" /\ elements_ # <<>>) =>
          RectContainsRect(ret.rect, bounding_box(elements_))
    /\ (pc = "bounding_box" /\ elements_ # <<>>) =>
          RectContainsRect(control_box(elements_), ret.rect)

\* bounding_box() has returned, for a path with a curve and a line, a
\* rectangle with a line's extent, which control_box() exceeds
C15_Witness ==
    /\ pc = "bounding_box"
    /\ \E i \in 1..Len(elements_) : elements_[i].type \in {"QuadTo", "CurveTo"}
    /\ ret.rect.x0 < ret.rect.x1
    /\ control_box(elements_) # ret.rect

\* C16: a BezPath without elements reports is_empty() true, area() 0,
\* perimeter() 0 and winding(pt) 0 for every point; flatten appends nothing to
\* out; segments() yields nothing, begin() being end(); bounding_box() is a
\* rectangle that is not finite.
C16_EmptyPath ==
    elements_ = <<>> =>
        /\ pc = "is_empty" => ret.value = TRUE
        /\ pc = "area" => ret.value = 0
        /\ pc = "perimeter" => ret.value = 0
        /\ pc = "winding" => ret.value = 0
        /\ pc \in {"flatten", "flatten_done"} => out = <<>>
        /\ pc \in {"segments", "segments_done"} =>
              yielded = <<>> /\ IterAtEnd(elements_, it)
        /\ pc = "bounding_box" => ~RectIsFinite(ret.rect)
        /\ pc \notin {"aborted", "thrown"} /\ ~failed

\* bounding_box() has returned on the path without elements
C16_Witness ==
    elements_ = <<>> /\ pc = "bounding_box" /\ ~RectIsFinite(ret.rect)

\* C17: for every path that begins with MoveTo, reverse_subpaths() returns a
\* path with as many elements and as many MoveTo elements as the input, and
\* the k-th subpath of the result begins with a MoveTo at the end point of the
\* k-th subpath of the input (its start point, if it ends in ClosePath).
C17_ReverseSubpathsShape ==
    pc \in {"reverse_subpaths", "aborted"} =>
        /\ ~failed
        /\ Len(ret.path) = Len(elements_)
        /\ Len(MoveToIdx(ret.path)) = Len(MoveToIdx(elements_))
        /\ \A k \in 1..Len(MoveToIdx(elements_)) :
              LET first == At(ret.path, MoveToIdx(ret.path)[k])
                  last == SubpathLast(elements_, k)
              IN  /\ first.point = EndPointOf(elements_, last)
                  /\ At(elements_, last).type = "ClosePath" =>
                        first.point = At(elements_, MoveToIdx(elements_)[k]).point

\* reverse_subpaths() has returned for a subpath that ends in ClosePath away
\* from its start: the result begins at that start and is another path
C17_Witness ==
    /\ pc = "reverse_subpaths"
    /\ Len(elements_) = 3
    /\ At(elements_, 1).type = "LineTo"
    /\ At(elements_, 1).point # At(elements_, 0).point
    /\ At(elements_, 2).type = "ClosePath"
    /\ At(ret.path, 0).point = At(elements_, 0).point
    /\ ret.path # elements_

C19_SubdivisionTouches ==
    /\ pc = "subdivide_concrete" =>
          /\ ret.pieces.first.p0 = ret.curve.p0
          /\ ret.pieces.first.p3 = ret.pieces.second.p0
          /\ ret.pieces.second.p3 = ret.curve.p3
    /\ pc = "subdivide_3" =>
          /\ ret.pieces[1].p0 = ret.curve.p0
          /\ ret.pieces[1].p3 = ret.pieces[2].p0
          /\ ret.pieces[2].p3 = ret.pieces[3].p0
          /\ ret.pieces[3].p3 = ret.curve.p3
    /\ pc = "subdivide" =>
          /\ ret.pieces.first.p0 = ret.curve.p0
          /\ ret.pieces.first.p2 = ret.pieces.second.p0
          /\ ret.pieces.second.p2 = ret.curve.p2

\* subdivide_3() has cut a cubic, whose end points are apart and whose
\* control points are apart, into three pieces that meet at two points apart
\* from each other and from the end points
C19_Witness ==
    /\ pc = "subdivide_3"
    /\ ret.curve.p0 # ret.curve.p3 /\ ret.curve.p1 # ret.curve.p2
    /\ ret.pieces[1].p3 # ret.pieces[2].p3
    /\ ret.pieces[1].p3 # ret.curve.p0 /\ ret.pieces[2].p3 # ret.curve.p3

\* C20: for every CubicBez, eval(t) is the point of the cubic Bezier curve at
\* t, (1-t)^3 p0 + 3(1-t)^2 t p1 + 3(1-t) t^2 p2 + t^3 p3; eval(0) = p0,
\* eval(1) = p3, and eval(1/2) is the point left.p3 = right.p0 where the
\* pieces of subdivide_concrete() meet.
C20_EvalIsBezier ==
    pc = "eval" =>
        LET c == ret.curve
            k == (2 * ret.t) \div One
        IN  /\ Pt(8 * ret.value.x, 8 * ret.value.y) = Bernstein8(c, k)
            /\ ret.t = 0 => ret.value = c.p0
            /\ ret.t = One => ret.value = c.p3
            /\ ret.t = One \div 2 => ret.value = subdivide_concrete(c).first.p3


\* C21 as stated: with a zero leading coefficient solve_cubic returns what
\* solve_quadratic returns, and solve_quadratic(c0, c1, 0) returns the single
\* root -c0/c1 whenever c1 # 0, a single 0 when c0 = c1 = 0, and nothing
\* when c1 = 0 # c0.
C21_ZeroLeadingAsStated ==
    /\ ret.op = "solve_cubic" /\ ret.c3 = 0
           => ret.roots = solve_quadratic(ret.c0, ret.c1, ret.c2)
    /\ ret.op \in {"solve_quadratic", "solve_cubic"} /\ ret.c2 = 0
       /\ (ret.op = "solve_cubic" => ret.c3 = 0)
           => /\ ret.c1 # 0 => /\ Len(ret.roots) = 1
                               /\ ret.roots[1] * ret.c1 = -ret.c0 * One
              /\ ret.c1 = 0 /\ ret.c0 = 0 => ret.roots = <<0>>
              /\ ret.c1 = 0 /\ ret.c0 # 0 => ret.roots = <<>>

\* C21: with a zero leading coefficient solve_cubic returns what
\* solve_quadratic returns, and solve_quadratic(c0, c1, 0) returns the single
\* root -c0/c1 when c1 # 0 and that quotient is finite, nothing when c1 # 0
\* and the quotient overflows, a single 0 when c0 = c1 = 0, and nothing when
\* c1 = 0 # c0; all-zero coefficients give exactly the root 0 from both.
C21_ZeroLeading ==
    /\ ret.op = "solve_cubic" /\ ret.c3 = 0
           => ret.roots = solve_quadratic(ret.c0, ret.c1, ret.c2)
    /\ ret.op \in {"solve_quadratic", "solve_cubic"} /\ ret.c2 = 0
       /\ (ret.op = "solve_cubic" => ret.c3 = 0)
           => /\ ret.c1 # 0 /\ Abs(ret.c0) \div Abs(ret.c1) < Infinity \div One
                    => /\ Len(ret.roots) = 1
                       /\ ret.roots[1] * ret.c1 = -ret.c0 * One
              /\ ret.c1 # 0 /\ Abs(ret.c0) \div Abs(ret.c1) >= Infinity \div One
                    => ret.roots = <<>>
              /\ ret.c1 = 0 /\ ret.c0 = 0 => ret.roots = <<0>>
              /\ ret.c1 = 0 /\ ret.c0 # 0 => ret.roots = <<>>

\* both solvers are asked about all-zero coefficients, and about a linear
\* equation with a fractional root
C21_Witness ==
    \/ /\ ret.op = "solve_cubic" /\ ret.c3 = 0 /\ ret.c2 = 0 /\ ret.c1 = 0 /\ ret.c0 = 0
       /\ ret.roots = <<0>>
    \/ /\ ret.op = "solve_quadratic" /\ ret.c2 = 0 /\ ret.c1 = 2 * One /\ ret.c0 = 3 * One
       /\ ret.roots = <<-3 * (One \div 2)>>


\* C27: for coefficients with c2 # 0 and no overflow, solve_quadratic returns
\* no root when c1^2 - 4 c0 c2 < 0, exactly the root -c1/(2 c2) when it is 0,
\* and two distinct roots in ascending order when it is > 0; every returned
\* x satisfies c0 + c1 x + c2 x^2 = 0.
C27_Quadratic ==
    ret.op = "solve_quadratic" /\ QuadraticInRange(ret.c0, ret.c1, ret.c2)
        => LET D == Discriminant(ret.c0, ret.c1, ret.c2)
               roots == ret.roots
           IN  /\ D < 0 => roots = <<>>
               /\ D = 0 => Len(roots) = 1 /\ 2 * roots[1] * ret.c2 = -ret.c1 * One
               /\ D > 0 => Len(roots) = 2 /\ roots[1] < roots[2]
               /\ \A i \in 1..Len(roots) : Poly2(ret.c0, ret.c1, ret.c2, roots[i]) = 0

\* x^2 - 4x + 3, whose larger root the code computes first, has been solved
C27_Witness ==
    /\ ret.op = "solve_quadratic"
    /\ ret.c0 = 3 * One /\ ret.c1 = -4 * One /\ ret.c2 = One
    /\ ret.roots = <<One, 3 * One>>


\* C22: when the end values handed to solve_itp have the same strict sign,
\* it returns NaN at once and f has not been evaluated even once.
C22_SameSignReturnsNaN ==
    InSolveItp /\ Sign(ValueOf(itp.f, itp.a0)) * Sign(ValueOf(itp.f, itp.b0)) > 0
        => /\ pc = "solve_itp" /\ ret.value = NaN
           /\ ~itp.evaluated /\ itp.x_eval = Nullopt

\* solve_itp has returned NaN for x - 2 on a bracket left of the root
C22_Witness ==
    /\ pc = "solve_itp" /\ itp.f = [kind |-> "linear", c |-> 2 * One]
    /\ itp.ya < 0 /\ itp.yb < 0
    /\ ret.value = NaN /\ ~itp.evaluated

\* C23 as stated: inv_arclen(s, accuracy) returns exactly 0 for every s <= 0
\* and exactly 1 for every s >= arclen(accuracy), in both cases without
\* calling the root finder.
C23_InvArclenEndsAsStated ==
    ret.op = "inv_arclen"
        => /\ ret.target <= 0
                => pc = "inv_arclen" /\ ret.value = 0 /\ itp.phase = "idle"
           /\ ret.target >= ret.len
                => pc = "inv_arclen" /\ ret.value = One /\ itp.phase = "idle"

\* C23: inv_arclen(s, accuracy) returns exactly 0 for every s <= 0, and
\* exactly 1 for every s > 0 with s >= arclen(accuracy), in both cases
\* without calling the root finder; inv_arclen(arclen(acc), acc) is 1 for a
\* curve of positive length and 0 for one of zero length.
C23_InvArclenEnds ==
    ret.op = "inv_arclen"
        => /\ ret.target <= 0
                => pc = "inv_arclen" /\ ret.value = 0 /\ itp.phase = "idle"
           /\ ret.target > 0 /\ ret.target >= ret.len
                => pc = "inv_arclen" /\ ret.value = One /\ itp.phase = "idle"

\* inv_arclen has been asked for the whole length of a line of length 4
C23_Witness ==
    /\ pc = "inv_arclen" /\ ret.op = "inv_arclen"
    /\ ret.len = 4 * One /\ ret.target = 4 * One
    /\ ret.value = One /\ itp.phase = "idle"

\* C25: a call of solve_itp on a bracket a < b with ya * yb <= 0 and
\* epsilon > 0 terminates: once in its loop it eventually returns.
C25_Terminates == (pc = "solve_itp_loop") ~> (pc = "solve_itp")

\* C28: in a run of solve_itp started with ya = f(a), yb = f(b) and
\* ya * yb <= 0, after each step a0 <= a <= b <= b0, ya and yb are f's values
\* at a and b and ya * yb <= 0; every point f is evaluated at and the value
\* returned lie in [a0, b0].
C28_Bracketed ==
    InSolveItp /\ Sign(ValueOf(itp.f, itp.a0)) * Sign(ValueOf(itp.f, itp.b0)) <= 0
        => /\ itp.phase \in {"loop", "secant"}
                => /\ itp.a0 <= itp.a /\ itp.a <= itp.b /\ itp.b <= itp.b0
                   /\ itp.ya = ValueOf(itp.f, itp.a)
                   /\ itp.yb = ValueOf(itp.f, itp.b)
                   /\ Sign(itp.ya) * Sign(itp.yb) <= 0
           /\ itp.x_eval # Nullopt
                => itp.a0 <= itp.x_eval.value /\ itp.x_eval.value <= itp.b0
           /\ itp.phase = "returned"
                => itp.a0 <= itp.result /\ itp.result <= itp.b0


\* C24: the subdivision of flatten stops at the depth cap: whatever the
\* tolerance, one QuadTo or CurveTo element produces at most 2^MAX_DEPTH
\* LineTo elements.
C24_DepthCap ==
    (pc = "flatten" /\ fl.i > 0
        /\ At(elements_, fl.i - 1).type \in {"QuadTo", "CurveTo"})
        => CountLineTo(EmittedLast) <= 2 ^ MAX_DEPTH


\* C26: area(), perimeter(), winding() and bounding_box() treat a QuadTo or
\* CurveTo inside a subpath as the straight edge from the current point to
\* the curve's end point, the next edge starting at that end point: each
\* query returns what it returns for the path with its curves straightened.
C26_CurvesAsChords ==
    /\ pc = "area" => ret.value = area(Straightened(elements_))
    /\ pc = "perimeter" => ret.value = perimeter(Straightened(elements_))
    /\ pc = "winding" => ret.value = winding(Straightened(elements_), pt)
    /\ pc = "bounding_box" => ret.rect = bounding_box(Straightened(elements_))


C30_NothingDropped ==
    FrontIsMoveTo(elements_) =>
        /\ (pc = "flatten" /\ fl.i > 0
               /\ At(elements_, fl.i - 1).type \in {"LineTo", "QuadTo", "CurveTo"})
               => CountOfType(EmittedLast, "LineTo") >= 1
        /\ pc = "flatten_done" =>
               /\ CountOfType(out, "MoveTo") = CountOfType(elements_, "MoveTo")
               /\ CountOfType(out, "ClosePath") = CountOfType(elements_, "ClosePath")

=============================================================================
